---- MODULE Spec2Model ----
(***************************************************************************)
(* Verification model of the Baserow database application                  *)
(* (backend/src/baserow/contrib/database).                                 *)
(*                                                                         *)
(* Part 1: global formula recalculation                                    *)
(*         (formula/handler.py: _recalculate_depth_first,                  *)
(*          FormulaHandler.recalculate_formulas_according_to_version,      *)
(*          FormulaHandler.recalculate_formula_field_cached_properties).   *)
(* Part 2: typing of one and two argument function calls                   *)
(*         (formula/ast/function.py).                                      *)
(* Part 3: compilation of a typed expression to a query expression         *)
(*         (formula/expression_generator/generator.py).                    *)
(* Part 4: the cached properties of one formula field                      *)
(*         (formula/handler.py).                                           *)
(* Part 5: the field handler on the fields of one table                    *)
(*         (fields/handler.py).                                            *)
(* Part 6: the sorts and filters of the views of the table                 *)
(*         (views/handler.py, views/registries.py).                        *)
(* Part 7: the cache of the aggregations of a view (views/handler.py).     *)
(* Part 8: the tokens of password protected public views                   *)
(*         (views/handler.py, api/views/serializers.py).                   *)
(* Part 9: restrict_rows_for_view (views/handler.py).                      *)
(* Part 10: starting an Airtable import job (airtable/handler.py).         *)
(* Part 11: one call of find_next_unused_field_name (fields/handler.py).   *)
(* Part 12: the row events sent to public views (ws/public/rows/signals.py *)
(*          and the row checker of views/handler.py).                      *)
(* Part 13: a Progress with a child (core/utils.py).                       *)
(***************************************************************************)
EXTENDS Integers, Sequences, FiniteSets, TLC

(***************************************************************************)
(* Bounds of the model.                                                    *)
(***************************************************************************)
NumFields == 3
NumWorkers == 2
MaxCalls == 2
MaxDepth == 5
NumFieldRows == 3     \* fields ever created in the table of part 5
MaxFieldCalls == 4    \* calls of the field handler in one behaviour
MaxNameLength == 3    \* Field.get_max_name_length(), counted in symbols
NumViews == 2         \* views of the table that can be sorted and filtered
NumSortRows == 3      \* view sorts ever created
NumFilterRows == 3    \* view filters ever created
MaxViewCalls == 3     \* calls of the view handler in one behaviour
NumAggProcs == 2      \* processes calling the view handler at the same time
MaxAggCalls == 5      \* calls about the aggregation cache in one behaviour
NumPublicViews == 2   \* views that can be shared with a slug
MaxTokenCalls == 4    \* calls about public view tokens in one behaviour
MaxRestrictRows == 2  \* rows passed to restrict_rows_for_view
NumJobRequests == 2   \* requests that start an Airtable import at the same time
NumJobUsers == 2      \* users that start Airtable imports
MaxJobs == 3          \* Airtable import jobs ever created
NumPubViews == 2      \* public views of the table
MaxCheckerCalls == 2  \* calls of one row checker in one behaviour
MaxRepresents == 3    \* represents_progress of a child Progress
MaxChildTotal == 3    \* total of a child Progress
MaxIncrements == 3    \* calls of increment in one behaviour
ParentTotal == 100    \* total of the Progress that has the child

Fields == 1..NumFields
Workers == 1..NumWorkers
NoWorker == 0

(***************************************************************************)
(* State of part 2 (typing) and part 3 (compilation).                      *)
(***************************************************************************)
VARIABLES
    typeCall,     \* the call last typed: function, typed arguments, typing rule
    typeResult    \* what type_function_given_valid_args returned for it

typingVars == <<typeCall, typeResult>>

VARIABLES
    compileIn,    \* the expression and the mode last compiled
    compileOut    \* the query expression returned, and the joins set up

compileVars == <<compileIn, compileOut>>

(***************************************************************************)
(* State of part 4 (cached properties of one formula field).               *)
(***************************************************************************)
VARIABLES
    cachedIn,     \* the formula field and what typing its formula gave
    cachedOut     \* the field after its cached properties were recalculated

cachedVars == <<cachedIn, cachedOut>>

(***************************************************************************)
(* State of part 5 (the fields of one table).                              *)
(***************************************************************************)
VARIABLES
    fields,       \* field id -> the stored field (absent, live or trashed)
    fieldCalls,   \* calls of the field handler made so far
    lastCall      \* the latest call: its arguments, its steps, what it raised

fieldVars == <<fields, fieldCalls, lastCall>>

(***************************************************************************)
(* State of part 6 (the sorts and filters of the views of the table; the   *)
(* rows themselves are kept with their field, in fields).                  *)
(***************************************************************************)
VARIABLES
    viewCalls,    \* calls of the view handler made so far
    lastViewCall  \* the latest call of the view handler and what it raised

viewVars == <<viewCalls, lastViewCall>>

(***************************************************************************)
(* State of part 7 (the cache of one aggregation of one view).             *)
(***************************************************************************)
VARIABLES
    cacheVersion, \* the value under the version key; NoKey when there is none
    cacheValue,   \* the entry under the value key; NoEntry when there is none
    cacheLock,    \* the process holding the aggregation lock of the view
    aggPc,        \* process -> where it is in its call
    aggCall,      \* process -> the call it makes and the locals of the call
    aggCalls,     \* calls made so far
    clearsBegun,  \* calls of clear_aggregation_cache begun so far
    cleared,      \* the highest number of a clear that has returned
    lastReturn    \* the locals of the get_view_field_aggregations that
                  \* returned last

aggVars == <<cacheVersion, cacheValue, cacheLock, aggPc, aggCall, aggCalls,
             clearsBegun, cleared, lastReturn>>

(***************************************************************************)
(* State of part 8 (the tokens of the password protected public views).    *)
(***************************************************************************)
VARIABLES
    publicViews,  \* view -> its slug and its public_view_password
    tokens,       \* the tokens issued so far, each with the view it was
                  \* issued for and the slug and password of that moment
    slugsMade,    \* the slugs that View.create_new_slug has made so far
    tokenCalls    \* calls made so far

tokenVars == <<publicViews, tokens, slugsMade, tokenCalls>>

(***************************************************************************)
(* State of part 9 (one call of restrict_rows_for_view).                   *)
(***************************************************************************)
VARIABLES
    restrictIn,   \* the arguments of the call
    restrictOut   \* what the call returned and what it left of its arguments

restrictVars == <<restrictIn, restrictOut>>

(***************************************************************************)
(* State of part 10 (the Airtable import jobs).                            *)
(***************************************************************************)
VARIABLES
    jobs,         \* the rows of AirtableImportJob, in the order of creation
    jobPc,        \* request -> where it is in create_and_start_..
    jobUser,      \* request -> the user it is made for
    jobRaised     \* request -> what its latest call raised

jobVars == <<jobs, jobPc, jobUser, jobRaised>>

(***************************************************************************)
(* State of part 11 (one call of find_next_unused_field_name).             *)
(***************************************************************************)
VARIABLES
    nameIn,       \* the table and the arguments of the call
    nameOut       \* the name the call returned

nameVars == <<nameIn, nameOut>>

(***************************************************************************)
(* State of part 12 (the public views of a table and the events about its  *)
(* rows).                                                                  *)
(***************************************************************************)
VARIABLES
    pubTable,     \* the filters of the public views and the values of the rows
    pubChecker,   \* the CachingPublicViewRowChecker in use
    pubBefore,    \* what the receiver of the before signal returned
    pubEvents,    \* the events broadcast for the latest update of rows
    pubLast,      \* the latest call of the checker and what it reported
    pubCalls      \* steps made so far

publicVars == <<pubTable, pubChecker, pubBefore, pubEvents, pubLast, pubCalls>>

(***************************************************************************)
(* State of part 13 (a Progress and one child of it).                      *)
(***************************************************************************)
VARIABLES
    progParent,   \* the Progress the child was made from
    progChild,    \* the child Progress; total -1 while there is none
    progRaised,   \* what the latest call raised
    progCalls     \* calls of increment made so far

progressVars == <<progParent, progChild, progRaised, progCalls>>

(***************************************************************************)
(* Part 1.  Global formula recalculation.                                  *)
(***************************************************************************)
VARIABLES
    isFormula,            \* field id -> is the specific field a FormulaField
    deps,                 \* field id -> ids of f.field_dependencies.all()
    db,                   \* committed rows of the formula field table
    tx,                   \* rows as seen inside the lock holder's transaction
    lock,                 \* worker holding LockedAtomicTransaction(FormulaField)
    pc,                   \* worker -> position in the entry point
    calls,                \* calls of the entry point started so far
    started,              \* workers that have called the entry point
    stack,                \* worker -> call stack of _recalculate_depth_first
    scanTodo,             \* worker -> fields the scan loop has not reached yet
    already_recalculated, \* worker -> the set local to the current call
    saved,                \* worker -> fields saved by the current call, in order
    scanned,              \* worker -> the worker has entered the scan loop
    afterCompleted,       \* worker -> current call began after a completed call
    anyCompleted,         \* some call of the entry point has run to completion
    lastSave,             \* what the latest f.save() was given and met
    revisited             \* worker -> saved fields a dependant's loop reached again

recalcVars == <<isFormula, deps, db, tx, lock, pc, calls, started, stack, scanTodo,
                already_recalculated, saved, scanned, afterCompleted,
                anyCompleted, lastSave, revisited>>

vars ==
    <<recalcVars, typingVars, compileVars, cachedVars, fieldVars, viewVars,
      aggVars, tokenVars, restrictVars, jobVars, nameVars, publicVars,
      progressVars>>

notRecalcVars ==
    <<typingVars, compileVars, cachedVars, fieldVars, viewVars, aggVars,
      tokenVars, restrictVars, jobVars, nameVars, publicVars, progressVars>>

notTypingVars ==
    <<recalcVars, compileVars, cachedVars, fieldVars, viewVars, aggVars,
      tokenVars, restrictVars, jobVars, nameVars, publicVars, progressVars>>

notCompileVars ==
    <<recalcVars, typingVars, cachedVars, fieldVars, viewVars, aggVars,
      tokenVars, restrictVars, jobVars, nameVars, publicVars, progressVars>>

notCachedVars ==
    <<recalcVars, typingVars, compileVars, fieldVars, viewVars, aggVars,
      tokenVars, restrictVars, jobVars, nameVars, publicVars, progressVars>>

notFieldVars ==
    <<recalcVars, typingVars, compileVars, cachedVars, viewVars, aggVars,
      tokenVars, restrictVars, jobVars, nameVars, publicVars, progressVars>>

notViewVars ==
    <<recalcVars, typingVars, compileVars, cachedVars, fieldVars, aggVars,
      tokenVars, restrictVars, jobVars, nameVars, publicVars, progressVars>>

notFieldViewVars ==
    <<recalcVars, typingVars, compileVars, cachedVars, aggVars, tokenVars,
      restrictVars, jobVars, nameVars, publicVars, progressVars>>

notAggVars ==
    <<recalcVars, typingVars, compileVars, cachedVars, fieldVars, viewVars,
      tokenVars, restrictVars, jobVars, nameVars, publicVars, progressVars>>

notTokenVars ==
    <<recalcVars, typingVars, compileVars, cachedVars, fieldVars, viewVars,
      aggVars, restrictVars, jobVars, nameVars, publicVars, progressVars>>

notRestrictVars ==
    <<recalcVars, typingVars, compileVars, cachedVars, fieldVars, viewVars,
      aggVars, tokenVars, jobVars, nameVars, publicVars, progressVars>>

notJobVars ==
    <<recalcVars, typingVars, compileVars, cachedVars, fieldVars, viewVars,
      aggVars, tokenVars, restrictVars, nameVars, publicVars, progressVars>>

notNameVars ==
    <<recalcVars, typingVars, compileVars, cachedVars, fieldVars, viewVars,
      aggVars, tokenVars, restrictVars, jobVars, publicVars, progressVars>>

notPublicVars ==
    <<recalcVars, typingVars, compileVars, cachedVars, fieldVars, viewVars,
      aggVars, tokenVars, restrictVars, jobVars, nameVars, progressVars>>

notProgressVars ==
    <<recalcVars, typingVars, compileVars, cachedVars, fieldVars, viewVars,
      aggVars, tokenVars, restrictVars, jobVars, nameVars, publicVars>>

BASEROW_FORMULA_VERSION == 2

Versions == 1..BASEROW_FORMULA_VERSION

\* str(e) of the BaserowFormulaException raised when typing field f.
ExceptionMessage(f) == <<"error typing the formula of field", f>>

\* What calculate_typed_expression does for field f: it returns a typed
\* expression of a valid type, or raises a BaserowFormulaException.
TypingOutcomes(f) ==
    {[raised |-> FALSE, ftype |-> "number", msg |-> <<>>, aggregate |-> FALSE,
      functions_used |-> {}],
     [raised |-> TRUE, ftype |-> "", msg |-> ExceptionMessage(f), aggregate |-> FALSE,
      functions_used |-> {}]}

FormulaText(f) == <<"formula of field", f>>

NoSave == [f |-> 0, raised |-> FALSE, msg |-> <<>>, formula |-> <<>>]

Range(s) == {s[i] : i \in 1..Len(s)}

\* The dependency graph is a DAG by construction.  The scan loop and the
\* loop over a field's dependencies meet the fields in any order (neither
\* queryset is ordered by id), so every DAG behaves as the one obtained by
\* numbering its fields in a topological order: dependencies have lower ids.
IsDAG(d) ==
    \A f \in Fields : \A g \in d[f] : g < f

InitialRows ==
    [Fields -> [version : Versions, formula_type : {"number"}, error : {<<>>},
                requires_refresh_after_insert : {FALSE}]]

RowOf(r, f) ==
    [version |-> r.version, formula_type |-> r.formula_type,
     error |-> r.error, formula |-> FormulaText(f),
     requires_refresh_after_insert |-> r.requires_refresh_after_insert]

RecalcInitWith(graphs) ==
    /\ isFormula \in [Fields -> BOOLEAN]
    /\ deps \in graphs
    /\ \E rows \in InitialRows :
          /\ \A f \in Fields : ~isFormula[f] => rows[f].version = BASEROW_FORMULA_VERSION
          /\ db = [f \in Fields |-> RowOf(rows[f], f)]
    /\ tx = db
    /\ lock = NoWorker
    /\ pc = [w \in Workers |-> "idle"]
    /\ calls = 0
    /\ started = {}
    /\ stack = [w \in Workers |-> <<>>]
    /\ scanTodo = [w \in Workers |-> {}]
    /\ already_recalculated = [w \in Workers |-> {}]
    /\ saved = [w \in Workers |-> <<>>]
    /\ scanned = [w \in Workers |-> FALSE]
    /\ afterCompleted = [w \in Workers |-> FALSE]
    /\ anyCompleted = FALSE
    /\ lastSave = NoSave
    /\ revisited = [w \in Workers |-> {}]

AnyGraphs == {d \in [Fields -> SUBSET Fields] : \A f \in Fields : f \notin d[f]}

RecalcInit == RecalcInitWith({d \in AnyGraphs : IsDAG(d)})

\* formulas_need_update(): is any FormulaField at another version.
formulas_need_update(rows) ==
    \E f \in Fields : isFormula[f] /\ rows[f].version # BASEROW_FORMULA_VERSION

\* The guard of the save in _recalculate_depth_first.
NeedsSave(rows, f, recalculated_dependant) ==
    isFormula[f]
        /\ (rows[f].version # BASEROW_FORMULA_VERSION \/ recalculated_dependant)

\* literal("").with_invalid_type(str(e)): the expression that stands for a
\* formula whose typing raised.
InvalidLiteral(msg) ==
    [raised |-> TRUE, ftype |-> "invalid", msg |-> msg, aggregate |-> FALSE,
     functions_used |-> {}]

expression_requires_refresh_after_insertOnlyAggregate(expression) ==
    expression.aggregate

\* _expression_requires_refresh_after_insert: the expression is aggregate, or
\* a function it uses is marked requires_refresh_after_insert.
expression_requires_refresh_after_insert(expression) ==
    IF expression.aggregate
    THEN TRUE
    ELSE \E fn \in expression.functions_used : fn.requires_refresh_after_insert

recalculate_formula_field_cached_propertiesVersionInTry(row, outcome) ==
    LET expression == IF outcome.raised THEN InvalidLiteral(outcome.msg) ELSE outcome
        refresh_after_insert == expression_requires_refresh_after_insert(expression)
    IN  IF outcome.raised
        THEN [row EXCEPT !.formula_type = expression.ftype, !.error = expression.msg,
                         !.requires_refresh_after_insert = refresh_after_insert]
        ELSE [row EXCEPT !.formula_type = expression.ftype, !.error = <<>>,
                         !.version = BASEROW_FORMULA_VERSION,
                         !.requires_refresh_after_insert = refresh_after_insert]

\* The cached properties of a formula field after typing it: a formula
\* exception is caught and becomes the invalid type carrying its message;
\* the version and the requires_refresh_after_insert flag are set.
recalculate_formula_field_cached_properties(row, outcome) ==
    LET expression == IF outcome.raised THEN InvalidLiteral(outcome.msg) ELSE outcome
        refresh_after_insert == expression_requires_refresh_after_insert(expression)
    IN  [row EXCEPT !.formula_type = expression.ftype,
                    !.error = IF outcome.raised THEN expression.msg ELSE <<>>,
                    !.version = BASEROW_FORMULA_VERSION,
                    !.requires_refresh_after_insert = refresh_after_insert]

BulkUpdateVersionsPrevious(rows) ==
    [f \in Fields |->
        IF isFormula[f]
        THEN [rows[f] EXCEPT !.version = BASEROW_FORMULA_VERSION - 1]
        ELSE rows[f]]

\* FormulaField.objects.update(version=BASEROW_FORMULA_VERSION)
BulkUpdateVersions(rows) ==
    [f \in Fields |->
        IF isFormula[f]
        THEN [rows[f] EXCEPT !.version = BASEROW_FORMULA_VERSION]
        ELSE rows[f]]

Frame(f) == [f |-> f, todo |-> deps[f], recalculated_dependant |-> FALSE]

Top(s) == s[Len(s)]

Pop(s) == SubSeq(s, 1, Len(s) - 1)

\* A call returns value to its caller: the caller's loop does
\* recalculated_dependant = recalculated_dependant or <value>; the scan loop
\* of the entry point ignores the value.
ReturnTo(s, value) ==
    IF s = <<>>
    THEN s
    ELSE [s EXCEPT ![Len(s)].recalculated_dependant = @ \/ value]

CallWithoutEarlyReturn(s, already, f) ==
    Append(s, [Frame(f) EXCEPT !.recalculated_dependant = f \in already])

\* _recalculate_depth_first(f, already_recalculated, ..) is called from the
\* frames s: "if f.id in already_recalculated: return True", else a new frame
\* starts the loop over f.field_dependencies.all().
Call(s, already, f) ==
    IF f \in already
    THEN ReturnTo(s, TRUE)
    ELSE Append(s, Frame(f))

\* The entry point is called: the first formulas_need_update() check.
\* The workers are interchangeable; they are numbered in the order in which
\* they make their first call.
FirstCheck(w) ==
    /\ pc[w] = "idle"
    /\ calls < MaxCalls
    /\ \A v \in Workers : v < w => v \in started
    /\ calls' = calls + 1
    /\ started' = started \cup {w}
    /\ already_recalculated' = [already_recalculated EXCEPT ![w] = {}]
    /\ saved' = [saved EXCEPT ![w] = <<>>]
    /\ revisited' = [revisited EXCEPT ![w] = {}]
    /\ afterCompleted' = [afterCompleted EXCEPT ![w] = anyCompleted]
    /\ IF formulas_need_update(db)
       THEN /\ pc' = [pc EXCEPT ![w] = "wait_lock"]
            /\ UNCHANGED anyCompleted
       ELSE /\ pc' = [pc EXCEPT ![w] = "idle"]
            /\ anyCompleted' = TRUE
    /\ UNCHANGED <<notRecalcVars, isFormula, deps, db, tx, lock, stack,
                   scanTodo, scanned, lastSave>>

\* with LockedAtomicTransaction(FormulaField): the table lock is exclusive
\* and is held until the transaction ends.
AcquireLock(w) ==
    /\ pc[w] = "wait_lock"
    /\ lock = NoWorker
    /\ lock' = w
    /\ tx' = db
    /\ pc' = [pc EXCEPT ![w] = "locked"]
    /\ UNCHANGED <<notRecalcVars, isFormula, deps, db, calls, started, stack,
                   scanTodo, already_recalculated, saved, scanned,
                   afterCompleted, anyCompleted, lastSave, revisited>>

RecheckMissing(w) ==
    /\ pc[w] = "locked"
    /\ pc' = [pc EXCEPT ![w] = "scan"]
    /\ scanTodo' = [scanTodo EXCEPT ![w] = {f \in Fields : isFormula[f]}]
    /\ scanned' = [scanned EXCEPT ![w] = TRUE]
    /\ UNCHANGED <<notRecalcVars, isFormula, deps, db, tx, lock, calls,
                   started, stack, already_recalculated, saved,
                   afterCompleted, anyCompleted, lastSave, revisited>>

\* The second formulas_need_update() check, made while holding the lock.
Recheck(w) ==
    /\ pc[w] = "locked"
    /\ IF formulas_need_update(tx)
       THEN /\ pc' = [pc EXCEPT ![w] = "scan"]
            /\ scanTodo' = [scanTodo EXCEPT ![w] = {f \in Fields : isFormula[f]}]
            /\ scanned' = [scanned EXCEPT ![w] = TRUE]
       ELSE /\ pc' = [pc EXCEPT ![w] = "commit"]
            /\ UNCHANGED <<scanTodo, scanned>>
    /\ UNCHANGED <<notRecalcVars, isFormula, deps, db, tx, lock, calls,
                   started, stack, already_recalculated, saved,
                   afterCompleted, anyCompleted, lastSave, revisited>>

\* for field in FormulaField.objects.all(): _recalculate_depth_first(field, ..)
ScanNext(w) ==
    /\ pc[w] = "scan"
    /\ stack[w] = <<>>
    /\ \E f \in scanTodo[w] :
          /\ scanTodo' = [scanTodo EXCEPT ![w] = @ \ {f}]
          /\ stack' = [stack EXCEPT ![w] = Call(<<>>, already_recalculated[w], f)]
    /\ UNCHANGED <<notRecalcVars, isFormula, deps, db, tx, lock, pc, calls,
                   started, already_recalculated, saved, scanned,
                   afterCompleted, anyCompleted, lastSave, revisited>>

\* for dep in f.field_dependencies.all():
\*     recalculated_dependant = recalculated_dependant or _recalculate_depth_first(dep, ..)
\* The right operand of "or" is evaluated only while the left one is False:
\* once recalculated_dependant is True the remaining rounds call nothing.
LoopDep(w) ==
    /\ pc[w] = "scan"
    /\ stack[w] # <<>>
    /\ Top(stack[w]).todo # {}
    /\ LET fr == Top(stack[w]) IN
       IF fr.recalculated_dependant
       THEN /\ stack' = [stack EXCEPT ![w][Len(stack[w])].todo = {}]
            /\ UNCHANGED revisited
       ELSE /\ Len(stack[w]) < MaxDepth
            /\ \E d \in fr.todo :
                  /\ stack' = [stack EXCEPT ![w] =
                                Call([stack[w] EXCEPT ![Len(stack[w])].todo = @ \ {d}],
                                     already_recalculated[w], d)]
                  /\ revisited' = [revisited EXCEPT ![w] =
                                     @ \cup ({d} \cap already_recalculated[w])]
    /\ UNCHANGED <<notRecalcVars, isFormula, deps, db, tx, lock, pc, calls,
                   started, scanTodo, already_recalculated, saved, scanned,
                   afterCompleted, anyCompleted, lastSave>>

\* f.save(field_lookup_cache=.., raise_if_invalid=False); already_recalculated.add(f.id)
SaveField(w) ==
    /\ pc[w] = "scan"
    /\ stack[w] # <<>>
    /\ Top(stack[w]).todo = {}
    /\ LET fr == Top(stack[w]) IN
       /\ NeedsSave(tx, fr.f, fr.recalculated_dependant)
       /\ \E outcome \in TypingOutcomes(fr.f) :
             /\ tx' = [tx EXCEPT ![fr.f] =
                          recalculate_formula_field_cached_properties(@, outcome)]
             /\ lastSave' = [f |-> fr.f, raised |-> outcome.raised,
                             msg |-> outcome.msg, formula |-> tx[fr.f].formula]
       /\ saved' = [saved EXCEPT ![w] = Append(@, fr.f)]
       /\ already_recalculated' = [already_recalculated EXCEPT ![w] = @ \cup {fr.f}]
       /\ stack' = [stack EXCEPT ![w] = ReturnTo(Pop(stack[w]), TRUE)]
    /\ UNCHANGED <<notRecalcVars, isFormula, deps, db, lock, pc, calls,
                   started, scanTodo, scanned, afterCompleted, anyCompleted,
                   revisited>>

\* return recalculated_dependant, when the field is not saved
ReturnUnsaved(w) ==
    /\ pc[w] = "scan"
    /\ stack[w] # <<>>
    /\ Top(stack[w]).todo = {}
    /\ LET fr == Top(stack[w]) IN
       /\ ~NeedsSave(tx, fr.f, fr.recalculated_dependant)
       /\ stack' = [stack EXCEPT ![w] = ReturnTo(Pop(stack[w]), fr.recalculated_dependant)]
    /\ UNCHANGED <<notRecalcVars, isFormula, deps, db, tx, lock, pc, calls,
                   started, scanTodo, already_recalculated, saved, scanned,
                   afterCompleted, anyCompleted, lastSave, revisited>>

\* num_updated = FormulaField.objects.update(version=BASEROW_FORMULA_VERSION)
BulkUpdate(w) ==
    /\ pc[w] = "scan"
    /\ stack[w] = <<>>
    /\ scanTodo[w] = {}
    /\ tx' = BulkUpdateVersions(tx)
    /\ pc' = [pc EXCEPT ![w] = "commit"]
    /\ UNCHANGED <<notRecalcVars, isFormula, deps, db, lock, calls, started,
                   stack, scanTodo, already_recalculated, saved, scanned,
                   afterCompleted, anyCompleted, lastSave, revisited>>

\* Leaving the with block: the transaction commits and the lock is released;
\* the call returns and its local already_recalculated set is gone.
Commit(w) ==
    /\ pc[w] = "commit"
    /\ lock = w
    /\ db' = tx
    /\ lock' = NoWorker
    /\ pc' = [pc EXCEPT ![w] = "idle"]
    /\ anyCompleted' = TRUE
    /\ already_recalculated' = [already_recalculated EXCEPT ![w] = {}]
    /\ saved' = [saved EXCEPT ![w] = <<>>]
    /\ revisited' = [revisited EXCEPT ![w] = {}]
    /\ lastSave' = NoSave
    /\ UNCHANGED <<notRecalcVars, isFormula, deps, tx, calls, started, stack,
                   scanTodo, scanned, afterCompleted>>

RecalcNext ==
    \E w \in Workers :
        \/ FirstCheck(w)
        \/ AcquireLock(w)
        \/ Recheck(w)
        \/ ScanNext(w)
        \/ LoopDep(w)
        \/ SaveField(w)
        \/ ReturnUnsaved(w)
        \/ BulkUpdate(w)
        \/ Commit(w)

(***************************************************************************)
(* Part 2.  Typing a call of a one or two argument function.               *)
(***************************************************************************)
ValidTypes == {"number", "text"}

NoMessage == "no error"

\* Arguments reach type_function_given_valid_args with a valid type.
ValidArgs == [expression_type : ValidTypes, error : {NoMessage}, many : BOOLEAN]

\* What the function's own typing rule, self.type_function(func_call, ..),
\* may return: an expression of a valid type or one it typed invalid itself.
RuleResults ==
    ValidArgs
        \cup [expression_type : {"invalid"}, error : {"rejected by the typing rule"},
              many : BOOLEAN]

FirstArgumentMessage == "first argument must be an aggregate formula"

OneOfTwoArgumentsMessage == "one of the two arguments must be an aggregate formula"

\* The messages that contain 'must be an aggregate formula'.
MustBeAggregateMessages == {FirstArgumentMessage, OneOfTwoArgumentsMessage}

\* func_call.with_invalid_type(error): a new expression typed invalid; the
\* expression it is called on is left as it was.
with_invalid_type(func_call, error) ==
    [expression_type |-> "invalid", error |-> error, many |-> func_call.many]

\* The untyped call handed to the typing rule.
FuncCall(args) ==
    [expression_type |-> "untyped", error |-> NoMessage,
     many |-> \E i \in 1..Len(args) : args[i].many]

OneArgumentKeepsMany(fn, args, rule) ==
    rule

\* OneArgumentBaserowFunction.type_function_given_valid_args.  The statement
\* under "if self.aggregate and not arg.many" builds the invalid expression
\* and drops it: there is no return, so typing goes on to the typing rule.
OneArgumentTypeFunctionGivenValidArgs(fn, args, rule) ==
    LET arg == args[1]
        dropped == IF fn.aggregate /\ ~arg.many
                   THEN with_invalid_type(FuncCall(args), FirstArgumentMessage)
                   ELSE FuncCall(args)
        expr == rule
    IN  IF fn.aggregate THEN [expr EXCEPT !.many = FALSE] ELSE expr

\* TwoArgumentBaserowFunction.type_function_given_valid_args, of the same
\* shape: the invalid expression is built and dropped.
TwoArgumentTypeFunctionGivenValidArgs(fn, args, rule) ==
    LET dropped == IF fn.aggregate /\ ~args[1].many /\ ~args[2].many
                   THEN with_invalid_type(FuncCall(args), OneOfTwoArgumentsMessage)
                   ELSE FuncCall(args)
        expr == rule
    IN  IF fn.aggregate THEN [expr EXCEPT !.many = FALSE] ELSE expr

NoCall == [fn |-> [num_args |-> 0, aggregate |-> FALSE], args |-> <<>>,
           rule |-> [expression_type |-> "untyped", error |-> NoMessage, many |-> FALSE]]

NoResult == [expression_type |-> "untyped", error |-> NoMessage, many |-> FALSE]

TypingInit ==
    /\ typeCall = NoCall
    /\ typeResult = NoResult

TypeOneArgumentCall ==
    \E aggregate \in BOOLEAN, arg \in ValidArgs, rule \in RuleResults :
        LET fn == [num_args |-> 1, aggregate |-> aggregate] IN
        /\ typeCall' = [fn |-> fn, args |-> <<arg>>, rule |-> rule]
        /\ typeResult' = OneArgumentTypeFunctionGivenValidArgs(fn, <<arg>>, rule)
        /\ UNCHANGED notTypingVars

TypeTwoArgumentCall ==
    \E aggregate \in BOOLEAN, arg1 \in ValidArgs, arg2 \in ValidArgs, rule \in RuleResults :
        LET fn == [num_args |-> 2, aggregate |-> aggregate] IN
        /\ typeCall' = [fn |-> fn, args |-> <<arg1, arg2>>, rule |-> rule]
        /\ typeResult' = TwoArgumentTypeFunctionGivenValidArgs(fn, <<arg1, arg2>>, rule)
        /\ UNCHANGED notTypingVars

TypingNext ==
    \/ TypeOneArgumentCall
    \/ TypeTwoArgumentCall

(***************************************************************************)
(* Part 3.  Compiling a typed expression to a query expression.            *)
(***************************************************************************)
ExpressionTypes == ValidTypes \cup {"invalid"}

\* Columns of the table's model (and attributes of a row instance of it).
ModelColumns == {"field_1", "field_4", "field_6"}

\* The columns that are a SingleSelectForeignKey.  On the row instance
\* field_4 holds a select option and field_6 holds None.
SingleSelectColumns == {"field_4", "field_6"}

InstanceAttributeIsNone(db_column) == db_column = "field_6"

\* Many to many columns of the model and of the model they lead to.
LinkColumns == {"field_2", "field_3"}

\* A query expression: an operator, the names it takes and its operands.
Term(op, name, args) == [op |-> op, name |-> name, args |-> args]

\* The nodes of a typed BaserowExpression.  target is <<>> for a reference
\* to a field of the same table (BaserowFieldReference.is_lookup() is false),
\* <<x>> for a lookup of x through the link field name, and <<l, x>> for
\* "l__x": the link field l of the lookup table and the field x behind it.
Leaf(kind, name, target) ==
    [kind |-> kind, name |-> name, target |-> target, aggregate_function |-> FALSE,
     args |-> <<>>]

\* A decimal literal carries its text as name and the characters of the text
\* as target.
Leaves ==
    {Leaf("int_literal", "1", <<>>),
     Leaf("int_literal", "100000000000000000000", <<>>),
     Leaf("decimal_literal", "1.50", <<"1", ".", "5", "0">>),
     Leaf("decimal_literal", "10.000", <<"1", "0", ".", "0", "0", "0">>),
     Leaf("field_reference", "field_1", <<>>),
     Leaf("field_reference", "field_4", <<>>),
     Leaf("field_reference", "field_6", <<>>),
     Leaf("field_reference", "field_9", <<>>),
     Leaf("field_reference", "field_2", <<"field_5">>),
     Leaf("field_reference", "field_2", <<"field_3", "field_7">>)}

\* The argument lists of the function calls compiled: every expression
\* without arguments alone, and a lookup followed by a literal, a field of
\* the table, a field the table does not have, or a lookup through a second
\* link field.
ArgumentLists ==
    {<<l>> : l \in Leaves}
        \cup {<<l, m>> : l \in {n \in Leaves : n.name \in LinkColumns},
                         m \in {n \in Leaves : \/ n.name \in {"1", "field_1", "field_9"}
                                                \/ Len(n.target) = 2}}

FunctionCalls ==
    {[kind |-> "function_call", name |-> "fn", target |-> <<>>,
      aggregate_function |-> a, args |-> args] :
        a \in BOOLEAN, args \in ArgumentLists}

Nodes == Leaves \cup FunctionCalls

\* A typed expression as the compiler reads it: the tree, its
\* expression_type and its aggregate flag.
TypedExpressions ==
    [node : Nodes, expression_type : ExpressionTypes, aggregate : BOOLEAN]

is_lookup(node) == node.kind = "field_reference" /\ node.target # <<>>

NullValue == Term("Value", <<"None">>, <<>>)

\* expression_type.placeholder_empty_value()
placeholder_empty_value(expression_type) ==
    Term("placeholder_empty_value", <<expression_type>>, <<>>)

FilteredRelationNoMiddleLink(join_path, middle_link) ==
    [annotation |-> <<"not_trashed">> \o join_path,
     join_path |-> join_path,
     conditions |->
        {<<join_path, "trashed", "False">>, <<join_path, "isnull", "False">>}]

\* _setup_annotations_and_joins: the FilteredRelation stored in
\* pre_annotations under not_trashed_<join_path>, with its conditions.
FilteredRelation(join_path, middle_link) ==
    [annotation |-> <<"not_trashed">> \o join_path,
     join_path |-> join_path,
     conditions |->
        {<<join_path, "trashed", "False">>, <<join_path, "isnull", "False">>}
            \cup (IF middle_link = <<>> THEN {}
                  ELSE {<<middle_link, "trashed", "False">>})]

Visited(term) == [raised |-> FALSE, term |-> term, pre_annotations |-> {}, built |-> {}]

\* An exception leaves the generator.
Raised == [raised |-> TRUE, term |-> NullValue, pre_annotations |-> {}, built |-> {}]

\* _wrap_in_subquery
wrap_in_subquery(single_select_extractor) ==
    Term("Subquery", <<"id = OuterRef(id)">>, <<single_select_extractor>>)

\* _make_reference_to_model_field: F(db_column), or for a single select
\* column the JSON object of its value, id and color columns, in a subquery
\* of the model unless the reference already stands in one.
make_reference_to_model_field(db_column, single_select, already_in_subquery) ==
    IF ~single_select
    THEN Term("F", db_column, <<>>)
    ELSE LET single_select_extractor ==
                 Term("JSONObject", <<"value", "id", "color">>,
                      <<Term("F", db_column \o <<"value">>, <<>>),
                        Term("F", db_column \o <<"id">>, <<>>),
                        Term("F", db_column \o <<"color">>, <<>>)>>)
         IN  IF already_in_subquery
             THEN single_select_extractor
             ELSE wrap_in_subquery(single_select_extractor)

\* Value(getattr(self.model_instance, <attribute path>))
InstanceValue(path) == Term("Value", <<"model_instance">> \o path, <<>>)

\* _generate_insert_expression: the value read from the row instance, cast
\* to the type of the model field.
generate_insert_expression(db_column) ==
    LET instance_value == InstanceValue(<<db_column>>)
        value == IF db_column \in SingleSelectColumns
                       /\ ~InstanceAttributeIsNone(db_column)
                 THEN Term("JSONObject", <<"value", "id", "color">>,
                           <<InstanceValue(<<db_column, "value">>),
                             InstanceValue(<<db_column, "id">>),
                             InstanceValue(<<db_column, "color">>)>>)
                 ELSE instance_value
        output_field == IF db_column \in SingleSelectColumns
                        THEN "JSONField" ELSE "model_field"
    IN  Term("Cast", <<output_field>>, <<value>>)

\* _setup_lookup_expression and _setup_extra_joins_to_linked_lookup_table.
setup_lookup_expression(node) ==
    LET m2m == node.name
        nested == Len(node.target) = 2
        join == IF nested
                THEN FilteredRelation(<<m2m, node.target[1]>>, <<m2m>>)
                ELSE FilteredRelation(<<m2m>>, <<>>)
    IN  [raised |-> FALSE,
         term |-> make_reference_to_model_field(
                      join.annotation \o <<node.target[Len(node.target)]>>, FALSE, TRUE),
         pre_annotations |-> {join},
         built |-> {join}]

visit_field_referenceAlwaysColumn(node, model_instance) ==
    IF is_lookup(node)
    THEN setup_lookup_expression(node)
    ELSE IF node.name \notin ModelColumns
    THEN Raised
    ELSE Visited(make_reference_to_model_field(
                     <<node.name>>, node.name \in SingleSelectColumns, FALSE))

\* visit_field_reference: a lookup is set up as a join whatever the mode;
\* else the column is referenced when there is no row instance and the
\* instance's value is read when there is one.  A column the model (the
\* instance) does not have raises.
visit_field_reference(node, model_instance) ==
    IF is_lookup(node)
    THEN setup_lookup_expression(node)
    ELSE IF ~model_instance
    THEN IF node.name \notin ModelColumns
         THEN Raised
         ELSE Visited(make_reference_to_model_field(
                          <<node.name>>, node.name \in SingleSelectColumns, FALSE))
    ELSE IF node.name \notin ModelColumns
    THEN Raised
    ELSE Visited(generate_insert_expression(node.name))

\* The decimal field a literal is given as its output field.
DecimalField(max_digits, decimal_places) ==
    [max_digits |-> max_digits, decimal_places |-> decimal_places]

\* A literal value with its output field.
LiteralValue(literal, output_field) ==
    [op |-> "Value", name |-> <<literal>>, args |-> <<>>, output_field |-> output_field]

\* The index of the decimal point in the characters of a literal, 0 if none.
RECURSIVE PointAt(_, _)
PointAt(chars, i) ==
    IF i > Len(chars) THEN 0
    ELSE IF chars[i] = "." THEN i
    ELSE PointAt(chars, i + 1)

\* BaserowDecimalLiteral.num_decimal_places(): the digits after the point.
num_decimal_places(chars) ==
    IF PointAt(chars, 1) = 0 THEN 0 ELSE Len(chars) - PointAt(chars, 1)

\* visit_int_literal
visit_int_literal(node) ==
    Visited(LiteralValue(node.name, DecimalField(50, 0)))

visit_decimal_literalNoPlaces(node) ==
    Visited(LiteralValue(node.name, DecimalField(50, 0)))

\* visit_decimal_literal
visit_decimal_literal(node) ==
    Visited(LiteralValue(node.name, DecimalField(50, num_decimal_places(node.target))))

\* expr.accept(self) for an expression without arguments.
VisitLeaf(node, model_instance) ==
    IF node.kind = "int_literal"
    THEN visit_int_literal(node)
    ELSE IF node.kind = "decimal_literal"
    THEN visit_decimal_literal(node)
    ELSE visit_field_reference(node, model_instance)

\* aggregate_wrapper: the subquery over the annotated, inner joined rows;
\* pre_annotations is cleared.
aggregate_wrapper(django_expr, pre_annotations) ==
    [op |-> "Subquery", name |-> <<"id = OuterRef(id)">>, args |-> <<django_expr>>,
     annotate |-> pre_annotations,
     not_null |-> {j.annotation : j \in pre_annotations}]

\* visit_function_call and to_django_expression_given_args
VisitFunctionCall(node, model_instance) ==
    LET visited == [i \in 1..Len(node.args) |-> VisitLeaf(node.args[i], model_instance)]
        raised == \E i \in 1..Len(node.args) : visited[i].raised
        pre == UNION {visited[i].pre_annotations : i \in 1..Len(node.args)}
        django_expr == Term("Func", <<node.name>>,
                            [i \in 1..Len(node.args) |-> visited[i].term])
    IN  IF raised
        THEN [raised |-> TRUE, term |-> NullValue, pre_annotations |-> {}, built |-> pre]
        ELSE IF node.aggregate_function
        THEN [raised |-> FALSE, term |-> aggregate_wrapper(django_expr, pre),
              pre_annotations |-> {}, built |-> pre]
        ELSE [raised |-> FALSE, term |-> django_expr, pre_annotations |-> pre, built |-> pre]

\* baserow_expression.accept(BaserowExpressionToDjangoExpressionGenerator(..))
Generate(node, model_instance) ==
    IF node.kind = "function_call"
    THEN VisitFunctionCall(node, model_instance)
    ELSE VisitLeaf(node, model_instance)

Compiled(term, generator_ran, raised, joins) ==
    [term |-> term, generator_ran |-> generator_ran, raised |-> raised, joins |-> joins]

baserow_expression_to_django_expressionNoInsertTest(expression, model_instance, insert) ==
    IF expression.expression_type = "invalid"
    THEN Compiled(NullValue, FALSE, FALSE, {})
    ELSE IF expression.aggregate /\ model_instance
    THEN Compiled(placeholder_empty_value(expression.expression_type), FALSE, FALSE, {})
    ELSE LET g == Generate(expression.node, model_instance) IN
         IF g.raised
         THEN Compiled(NullValue, TRUE, TRUE, g.built)
         ELSE Compiled(g.term, TRUE, FALSE, g.built)

baserow_expression_to_django_expressionAggregateFirst(expression, model_instance, insert) ==
    IF expression.aggregate /\ model_instance /\ insert
    THEN Compiled(placeholder_empty_value(expression.expression_type), FALSE, FALSE, {})
    ELSE IF expression.expression_type = "invalid"
    THEN Compiled(NullValue, FALSE, FALSE, {})
    ELSE LET g == Generate(expression.node, model_instance) IN
         IF g.raised
         THEN Compiled(NullValue, TRUE, TRUE, g.built)
         ELSE Compiled(g.term, TRUE, FALSE, g.built)

\* _baserow_expression_to_django_expression: the invalid type gives
\* Value(None); an aggregate expression compiled for an insert gives the
\* placeholder; else the generator runs, and an exception it raises is
\* handed to formula_exception_handler and Value(None) is returned.
baserow_expression_to_django_expression(expression, model_instance, insert) ==
    IF expression.expression_type = "invalid"
    THEN Compiled(NullValue, FALSE, FALSE, {})
    ELSE IF expression.aggregate /\ model_instance /\ insert
    THEN Compiled(placeholder_empty_value(expression.expression_type), FALSE, FALSE, {})
    ELSE LET g == Generate(expression.node, model_instance) IN
         IF g.raised
         THEN Compiled(NullValue, TRUE, TRUE, g.built)
         ELSE Compiled(g.term, TRUE, FALSE, g.built)

NothingCompiled ==
    [expression |-> [node |-> Leaf("none", "none", <<>>), expression_type |-> "invalid",
                     aggregate |-> FALSE],
     mode |-> [name |-> "none", model_instance |-> FALSE, insert |-> FALSE]]

CompileInit ==
    /\ compileIn = NothingCompiled
    /\ compileOut = Compiled(NullValue, FALSE, FALSE, {})

Compile(mode) ==
    \E expression \in TypedExpressions :
        /\ compileIn' = [expression |-> expression, mode |-> mode]
        /\ compileOut' = baserow_expression_to_django_expression(
                             expression, mode.model_instance, mode.insert)
        /\ UNCHANGED notCompileVars

baserow_expression_to_update_django_expression ==
    Compile([name |-> "bulk_update", model_instance |-> FALSE, insert |-> FALSE])

baserow_expression_to_single_row_update_django_expression ==
    Compile([name |-> "single_row_update", model_instance |-> TRUE, insert |-> FALSE])

baserow_expression_to_insert_django_expression ==
    Compile([name |-> "insert", model_instance |-> TRUE, insert |-> TRUE])

CompileNext ==
    \/ baserow_expression_to_update_django_expression
    \/ baserow_expression_to_single_row_update_django_expression
    \/ baserow_expression_to_insert_django_expression

(***************************************************************************)
(* Part 4.  Recalculating the cached properties of one formula field.      *)
(***************************************************************************)

\* The function definitions a formula can use.
FunctionDefinitions ==
    {[type |-> "row_id", requires_refresh_after_insert |-> TRUE],
     [type |-> "add", requires_refresh_after_insert |-> FALSE],
     [type |-> "sum", requires_refresh_after_insert |-> FALSE]}

\* What calculate_typed_expression can do for the formula of a field: return
\* an expression of a valid type, aggregate or not, using any of the
\* functions, or raise.
AllTypingOutcomes ==
    [raised : {FALSE}, ftype : ValidTypes, msg : {<<>>}, aggregate : BOOLEAN,
     functions_used : SUBSET FunctionDefinitions]
        \cup {o \in TypingOutcomes(1) : o.raised}

\* The stored formula field before the recalculation.
StoredFormulaFields ==
    [version : Versions, formula_type : {"number"}, error : {<<>>},
     formula : {FormulaText(1)}, requires_refresh_after_insert : BOOLEAN]

NothingRecalculated ==
    [formula_field |-> [version |-> 1, formula_type |-> "number", error |-> <<>>,
                        formula |-> <<>>, requires_refresh_after_insert |-> FALSE],
     outcome |-> InvalidLiteral(<<>>)]

CachedInit ==
    /\ cachedIn = NothingRecalculated
    /\ cachedOut = NothingRecalculated.formula_field

\* FormulaHandler.recalculate_formula_field_cached_properties(formula_field, ..)
RecalculateCachedProperties ==
    \E formula_field \in StoredFormulaFields, outcome \in AllTypingOutcomes :
        /\ cachedIn' = [formula_field |-> formula_field, outcome |-> outcome]
        /\ cachedOut' = recalculate_formula_field_cached_properties(formula_field, outcome)
        /\ UNCHANGED notCachedVars

(***************************************************************************)
(* Part 5.  The field handler: create_field, update_field, delete_field    *)
(* and restore_field on the fields of one table (fields/handler.py).       *)
(*                                                                         *)
(* A field name is a sequence of symbols: a base name, then the postfixes  *)
(* and numbers appended to it; its length is its number of symbols.        *)
(***************************************************************************)
FieldIds == 1..NumFieldRows

FieldTypes == {"formula", "link_row"}

\* field_type.can_be_primary_field
can_be_primary_field(type) == type # "link_row"

\* The names a caller asks for, and the absence of the "name" key.
InputNames == {<<"a">>, <<"b">>, <<"c">>}

\* The names callers ask for are interchangeable: a call asks for a name
\* some field of the table is based on, or for the first of the other names.
NamesInOrder == <<<<"a">>, <<"b">>, <<"c">>>>

NamesToAskFor(t) ==
    LET held == {i \in 1..Len(NamesInOrder) :
                    \E f \in DOMAIN t : /\ t[f].name # <<>>
                                         /\ t[f].name[1] = NamesInOrder[i][1]}
        fresh == {i \in 1..Len(NamesInOrder) :
                     i \notin held /\ \A k \in 1..(i - 1) : k \in held}
    IN  {NamesInOrder[i] : i \in held \cup fresh}

NoName == <<>>

RESERVED_BASEROW_FIELD_NAMES == {<<"id">>, <<"order">>}

NoPostfix == "none"

Postfixes == {NoPostfix, "x"}

NoException == "none"

\* A row of the field table with its relations: the fields it depends on
\* (dependencies), the sorts on it (field.viewsort_set) and the filters on it
\* (field.viewfilter_set).
AbsentField ==
    [state |-> "absent", name |-> NoName, primary |-> FALSE, type |-> "formula",
     dependencies |-> {}, viewsort_set |-> {}, viewfilter_set |-> {}]

\* Field.objects: the fields of the table that are not trashed.
LiveFields(t) == {f \in FieldIds : t[f].state = "live"}

\* field.dependant_fields_with_types(..): the fields with a dependency edge
\* to field f.
dependant_fields(t, f) == {d \in FieldIds : f \in t[d].dependencies}

\* One step of a call.
Ev(kind, f) == [kind |-> kind, f |-> f]

\* A call in progress: the stored fields, the steps taken, the exception.
Run(t) == [table |-> t, events |-> <<>>, raised |-> NoException]

Step(run, kind, f) == [run EXCEPT !.events = Append(@, Ev(kind, f))]

Raise(run, exception) == [run EXCEPT !.raised = exception]

RECURSIVE InOrder(_)
InOrder(S) ==
    IF S = {} THEN <<>>
    ELSE LET least == CHOOSE x \in S : \A y \in S : x <= y
         IN  <<least>> \o InOrder(S \ {least})

\* The loop over the dependants: one call of the hook for each.
RECURSIVE NotifyDependants(_, _, _)
NotifyDependants(run, hook, dependants) ==
    IF dependants = <<>> THEN run
    ELSE NotifyDependants(Step(run, hook, Head(dependants)), hook, Tail(dependants))

\* name[:max_field_name_length]
Truncated(name) ==
    SubSeq(name, 1, IF Len(name) < MaxNameLength THEN Len(name) ELSE MaxNameLength)

\* f" {i}", one symbol
NumberSuffix(i) == <<<<"1", "2", "3", "4", "5", "6", "7", "8", "9">>[i]>>

\* The name tried with number i: the suffix is appended, after cutting as
\* many symbols as the suffix has when the result would be too long.
NumberedName(original_field_name, i) ==
    LET suffix_to_append == NumberSuffix(i)
        suffix_length == Len(suffix_to_append)
    IN  IF Len(original_field_name) + suffix_length > MaxNameLength
        THEN SubSeq(original_field_name, 1,
                    IF Len(original_field_name) > suffix_length
                    THEN Len(original_field_name) - suffix_length ELSE 0)
                 \o suffix_to_append
        ELSE original_field_name \o suffix_to_append

RECURSIVE FirstFreeNumbered(_, _, _)
FirstFreeNumbered(original_field_name, existing, i) ==
    IF NumberedName(original_field_name, i) \notin existing
    THEN NumberedName(original_field_name, i)
    ELSE FirstFreeNumbered(original_field_name, existing, i + 1)

find_next_unused_field_nameIgnoresNothing(t, field_names_to_try, field_ids_to_ignore) ==
    LET tries == [i \in 1..Len(field_names_to_try) |-> Truncated(field_names_to_try[i])]
        others == LiveFields(t)
        taken_field_names == {t[g].name : g \in others} \cap Range(tries)
        existing_field_name_collisions == {t[g].name : g \in others}
    IN  IF Cardinality(Range(tries)) > Cardinality(taken_field_names)
        THEN tries[CHOOSE i \in 1..Len(tries) :
                       /\ tries[i] \notin taken_field_names
                       /\ \A j \in 1..(i - 1) : tries[j] \in taken_field_names]
        ELSE FirstFreeNumbered(tries[Len(tries)], existing_field_name_collisions, 2)

\* find_next_unused_field_name(table, field_names_to_try, field_ids_to_ignore)
find_next_unused_field_name(t, field_names_to_try, field_ids_to_ignore) ==
    LET tries == [i \in 1..Len(field_names_to_try) |-> Truncated(field_names_to_try[i])]
        others == LiveFields(t) \ field_ids_to_ignore
        taken_field_names == {t[g].name : g \in others} \cap Range(tries)
        existing_field_name_collisions == {t[g].name : g \in others}
    IN  IF Cardinality(Range(tries)) > Cardinality(taken_field_names)
        THEN tries[CHOOSE i \in 1..Len(tries) :
                       /\ tries[i] \notin taken_field_names
                       /\ \A j \in 1..(i - 1) : tries[j] \in taken_field_names]
        ELSE FirstFreeNumbered(tries[Len(tries)], existing_field_name_collisions, 2)

\* _validate_field_name: the exception it raises, if any.  existing_field is
\* a set: empty, or holding the field that is renamed.
validate_field_name(t, name, existing_field, raise_if_name_missing) ==
    IF name = NoName
    THEN IF raise_if_name_missing THEN "InvalidBaserowFieldName" ELSE NoException
    ELSE IF \E f \in existing_field : t[f].name = name
    THEN NoException
    ELSE IF Len(name) > MaxNameLength
    THEN "MaxFieldNameLengthExceeded"
    ELSE IF \E g \in LiveFields(t) : t[g].name = name
    THEN "FieldWithSameNameAlreadyExists"
    ELSE IF name \in RESERVED_BASEROW_FIELD_NAMES
    THEN "ReservedBaserowFieldNameException"
    ELSE NoException

\* _validate_name_and_optionally_rename_if_collision: the exception raised,
\* and the name to store.
validate_name_and_optionally_rename_if_collision(t, f, name, postfix) ==
    LET raised == validate_field_name(t, name, {f}, FALSE) IN
    IF raised = "FieldWithSameNameAlreadyExists" /\ postfix # NoPostfix
    THEN [raised |-> NoException,
          name |-> find_next_unused_field_name(t, <<name \o <<postfix>>>>, {})]
    ELSE [raised |-> raised, name |-> name]

\* FieldDependencyHandler.rebuild_dependencies(field, ..): the edges from
\* the field are those to the fields its definition references.
rebuild_dependencies(run, f, references) ==
    Step([run EXCEPT !.table[f].dependencies = references], "rebuild_dependencies", f)

\* FieldDependencyHandler.break_dependencies_delete_dependants(field): the
\* edges from the field are deleted, the edges to it no longer lead to it.
break_dependencies_delete_dependants(run, f) ==
    Step([run EXCEPT !.table =
              [g \in FieldIds |->
                  [run.table[g] EXCEPT !.dependencies =
                      IF g = f THEN {} ELSE @ \ {f}]]],
         "break_dependencies_delete_dependants", f)

\* TrashHandler.trash(user, group, database, field, ..)
Trash(run, f) ==
    Step([run EXCEPT !.table[f].state = "trashed"], "trash", f)

\* update_collector.apply_updates_and_get_updated_fields(), the signal and
\* update_collector.send_additional_field_updated_signals()
ApplyAndSend(run, signal, f) ==
    Step(Step(Step(run, "apply_updates_and_get_updated_fields", f), signal, f),
         "send_additional_field_updated_signals", f)

\* field_type.check_can_order_by(field)
check_can_order_by(type) == type # "link_row"

\* The view filter types, and for each its compatible_field_types: a field
\* type name, or a callable that is given the field.
ViewFilterTypes == {"equal", "empty", "link_row_has"}

compatible_field_types(filter_type) ==
    CASE filter_type = "equal" ->
             {[callable |-> TRUE, type |-> "formula"]}
      [] filter_type = "empty" ->
             {[callable |-> FALSE, type |-> "formula"],
              [callable |-> FALSE, type |-> "link_row"]}
      [] filter_type = "link_row_has" ->
             {[callable |-> FALSE, type |-> "link_row"]}

\* ViewFilterType.field_is_compatible(field): any(callable(t) and t(field)
\* or t == field_type.type for t in self.compatible_field_types)
field_is_compatible(filter_type, field) ==
    \E t \in compatible_field_types(filter_type) :
        \/ t.callable /\ field.type = t.type
        \/ ~t.callable /\ t.type = field.type

field_type_changedKeepsFilters(run, f) ==
    LET field == run.table[f]
    IN  Step([run EXCEPT !.table[f].viewsort_set =
                            IF ~check_can_order_by(field.type) THEN {} ELSE @],
             "field_type_changed", f)

\* ViewHandler.field_type_changed(field)
field_type_changed(run, f) ==
    LET field == run.table[f]
    IN  Step([run EXCEPT !.table[f].viewsort_set =
                            IF ~check_can_order_by(field.type) THEN {} ELSE @,
                         !.table[f].viewfilter_set =
                            {filter \in @ : field_is_compatible(filter.type, field)}],
             "field_type_changed", f)

\* FieldHandler.create_field(user, table, type_name, primary, name=.., ..)
\* creating field f; references are the fields its definition references.
create_field(t, f, type_name, primary, name, references) ==
    LET run == Run(t)
        name_raised == validate_field_name(t, name, {}, TRUE)
    IN  IF primary /\ \E g \in LiveFields(t) : t[g].primary
        THEN Raise(run, "PrimaryFieldAlreadyExists")
        ELSE IF name_raised # NoException
        THEN Raise(run, name_raised)
        ELSE LET instance == [AbsentField EXCEPT !.state = "live", !.name = name,
                                                 !.primary = primary,
                                                 !.type = type_name]
                 saved_run == Step([run EXCEPT !.table[f] = instance], "save", f)
                 rebuilt == rebuild_dependencies(saved_run, f, references)
                 added == Step(Step(rebuilt, "add_field", f), "after_create", f)
                 notified == NotifyDependants(added, "field_dependency_created",
                                 InOrder(dependant_fields(added.table, f)))
             IN  ApplyAndSend(notified, "field_created.send", f)

update_fieldTypeBeforePrimaryTest(t, f, new_type_name, name, postfix, references, callback, alter_error) ==
    LET run == Run(t)
        baserow_field_type_changed == t[f].type # new_type_name
        changed == IF baserow_field_type_changed
                   THEN Step(Step(run, "change_polymorphic_type_to", f),
                             "field_type_changed", f)
                   ELSE run
    IN  IF baserow_field_type_changed /\ t[f].primary
               /\ ~can_be_primary_field(new_type_name)
        THEN Raise(changed, "IncompatiblePrimaryFieldTypeError")
        ELSE changed

update_fieldSignalFirst(t, f, new_type_name, name, postfix, references, callback, alter_error) ==
    LET run == Run(t)
        renamed == validate_name_and_optionally_rename_if_collision(t, f, name, postfix)
    IN  IF (t[f].type # new_type_name /\ t[f].primary
               /\ ~can_be_primary_field(new_type_name))
           \/ renamed.raised # NoException
        THEN Raise(run, "rejected")
        ELSE LET signalled == Step(run, "field_updated.send", f)
                 notified == NotifyDependants(signalled, "field_dependency_updated",
                                 InOrder(dependant_fields(t, f)))
             IN  Step(notified, "apply_updates_and_get_updated_fields", f)

update_fieldErrorLogged(t, f, new_type_name, name, postfix, references, callback, alter_error) ==
    LET run == Run(t)
        baserow_field_type_changed == t[f].type # new_type_name
        renamed == validate_name_and_optionally_rename_if_collision(t, f, name, postfix)
    IN  IF baserow_field_type_changed /\ t[f].primary
               /\ ~can_be_primary_field(new_type_name)
        THEN Raise(run, "IncompatiblePrimaryFieldTypeError")
        ELSE IF renamed.raised # NoException
        THEN Raise(run, renamed.raised)
        ELSE LET changed ==
                     IF baserow_field_type_changed
                     THEN field_type_changed(
                              Step([run EXCEPT !.table[f].type = new_type_name],
                                   "change_polymorphic_type_to", f), f)
                     ELSE run
                 saved_run ==
                     Step([changed EXCEPT !.table[f].name =
                               IF renamed.name = NoName THEN @ ELSE renamed.name],
                          "save", f)
                 rebuilt == rebuild_dependencies(saved_run, f, references)
             IN  Step(Step(rebuilt, "alter_field", f), "field_updated.send", f)

\* FieldHandler.update_field(user, field, new_type_name, name=..,
\* postfix_to_fix_name_collisions, after_schema_change_callback, ..)
update_field(t, f, new_type_name, name, postfix, references, callback, alter_error) ==
    LET run == Run(t)
        baserow_field_type_changed == t[f].type # new_type_name
    IN  IF baserow_field_type_changed /\ t[f].primary
               /\ ~can_be_primary_field(new_type_name)
        THEN Raise(run, "IncompatiblePrimaryFieldTypeError")
        ELSE LET changed ==
                     IF baserow_field_type_changed
                     THEN field_type_changed(
                              Step([run EXCEPT !.table[f].type = new_type_name],
                                   "change_polymorphic_type_to", f), f)
                     ELSE run
                 renamed == validate_name_and_optionally_rename_if_collision(
                                t, f, name, postfix)
             IN  IF renamed.raised # NoException
                 THEN Raise(changed, renamed.raised)
                 ELSE
                 LET saved_run ==
                         Step([changed EXCEPT
                                   !.table[f].name =
                                       IF renamed.name = NoName THEN @
                                       ELSE renamed.name],
                              "save", f)
                     rebuilt == rebuild_dependencies(saved_run, f, references)
                 IN  IF alter_error
                     THEN Raise(rebuilt, "CannotChangeFieldType")
                     ELSE
                      LET altered == Step(Step(rebuilt, "alter_field", f),
                                          "after_update", f)
                          called == IF callback
                                    THEN Step(altered, "after_schema_change_callback", f)
                                    ELSE altered
                          notified ==
                              NotifyDependants(called, "field_dependency_updated",
                                  InOrder(dependant_fields(called.table, f)))
                          applied == Step(notified,
                                          "apply_updates_and_get_updated_fields", f)
                          viewed == Step(applied, "ViewHandler.field_updated", f)
                      IN  Step(Step(viewed, "field_updated.send", f),
                               "send_additional_field_updated_signals", f)

delete_fieldNoPrimaryTest(t, f, allow_deleting_primary, apply_and_send_updates) ==
    LET run == Run(t)
        dependants == InOrder(dependant_fields(t, f))
        signalled == Step(run, "before_field_deleted.send", f)
        broken == break_dependencies_delete_dependants(Trash(signalled, f), f)
    IN  NotifyDependants(broken, "field_dependency_deleted", dependants)

delete_fieldNotifyFirst(t, f, allow_deleting_primary, apply_and_send_updates) ==
    LET run == Run(t)
        dependants == InOrder(dependant_fields(t, f))
    IN  IF t[f].primary /\ ~allow_deleting_primary
        THEN Raise(run, "CannotDeletePrimaryField")
        ELSE LET signalled == Step(run, "before_field_deleted.send", f)
                 notified == NotifyDependants(signalled, "field_dependency_deleted",
                                              dependants)
             IN  break_dependencies_delete_dependants(Trash(notified, f), f)

\* FieldHandler.delete_field(user, field, .., apply_and_send_updates,
\* allow_deleting_primary)
delete_field(t, f, allow_deleting_primary, apply_and_send_updates) ==
    LET run == Run(t)
    IN  IF t[f].primary /\ ~allow_deleting_primary
        THEN Raise(run, "CannotDeletePrimaryField")
        ELSE LET dependants == InOrder(dependant_fields(t, f))
                 signalled == Step(run, "before_field_deleted.send", f)
                 trashed == Trash(signalled, f)
                 broken == break_dependencies_delete_dependants(trashed, f)
                 notified == NotifyDependants(broken, "field_dependency_deleted",
                                              dependants)
             IN  IF apply_and_send_updates
                 THEN ApplyAndSend(notified, "field_deleted.send", f)
                 ELSE notified

\* restore_field with the test of the related tables after field.save().
restore_fieldTestAfterSave(t, f, is_specific, related_table_trashed, restore_failed, references) ==
    LET unused == find_next_unused_field_name(
                      t, <<t[f].name, t[f].name \o <<"(Restored)">>>>, {f})
        specific_name == IF is_specific THEN unused ELSE t[f].name
        saved_run == Step([Run(t) EXCEPT !.table[f].name = specific_name,
                                         !.table[f].state = "live"],
                          "save", f)
    IN  IF related_table_trashed
        THEN IF restore_failed
             THEN Step(saved_run, "field_restored.send", f)
             ELSE Raise(saved_run, "RelatedTableTrashedException")
        ELSE LET rebuilt == rebuild_dependencies(saved_run, f, references)
                 notified == NotifyDependants(rebuilt, "field_dependency_created",
                                 InOrder(dependant_fields(rebuilt.table, f)))
                 applied == Step(notified, "apply_updates_and_get_updated_fields", f)
                 viewed == Step(applied, "ViewHandler.field_updated", f)
             IN  Step(Step(viewed, "field_restored.send", f),
                      "send_additional_field_updated_signals", f)

\* FieldHandler.restore_field(field, ..).  is_specific: the field passed in
\* is its specific instance, so that field.specific is the instance itself;
\* for the base Field instance field.specific is loaded from the database.
restore_field(t, f, is_specific, related_table_trashed, restore_failed, references) ==
    LET run == Run(t)
    IN  IF related_table_trashed
        THEN IF restore_failed
             THEN Step(run, "field_restored.send", f)
             ELSE Raise(run, "RelatedTableTrashedException")
        ELSE LET unused == find_next_unused_field_name(
                               t, <<t[f].name, t[f].name \o <<"(Restored)">>>>, {f})
                 specific_name == IF is_specific THEN unused ELSE t[f].name
                 saved_run == Step([run EXCEPT !.table[f].name = specific_name,
                                               !.table[f].state = "live"],
                                   "save", f)
                 rebuilt == rebuild_dependencies(saved_run, f, references)
                 notified == NotifyDependants(rebuilt, "field_dependency_created",
                                 InOrder(dependant_fields(rebuilt.table, f)))
                 applied == Step(notified, "apply_updates_and_get_updated_fields", f)
                 viewed == Step(applied, "ViewHandler.field_updated", f)
             IN  Step(Step(viewed, "field_restored.send", f),
                      "send_additional_field_updated_signals", f)

\* What is kept of a call: the field as it was stored when the call was
\* made, its dependants at that moment, the arguments, and the outcome.
FieldCall(op, f, t, arguments, run) ==
    [op |-> op, field |-> f, stored |-> t[f], dependants |-> dependant_fields(t, f),
     arguments |-> arguments, events |-> run.events, raised |-> run.raised]

\* The arguments kept: the type and the name asked for, and flag, which is
\* primary for create_field, allow_deleting_primary for delete_field,
\* whether after_schema_change_callback was given
\* for update_field, and whether the specific instance was passed for
\* restore_field; error: whether the storage engine rejects the column
\* alteration of update_field.
NoArguments ==
    [type_name |-> "formula", name |-> NoName, flag |-> FALSE, error |-> FALSE,
     related_table_trashed |-> FALSE]

NoFieldCall == FieldCall("none", 1, [f \in FieldIds |-> AbsentField], NoArguments,
                    Run([f \in FieldIds |-> AbsentField]))

NoFields == [f \in FieldIds |-> AbsentField]

\* The table is one of the given tables, and no call was made on it yet.
FieldsInitWith(tables) ==
    /\ fields \in tables
    /\ fieldCalls = 0
    /\ lastCall = NoFieldCall

FieldsInit == FieldsInitWith({NoFields})

\* The fields a formula created or stored as field f can reference.
References(t, f, type_name) ==
    IF type_name = "formula"
    THEN SUBSET {g \in LiveFields(t) : g < f}
    ELSE {{}}

\* The transaction around a call: what the call wrote is kept when the
\* call returns and undone when it raises.
transaction(t, run) == IF run.raised # NoException THEN t ELSE run.table

Called(op, f, arguments, run) ==
    /\ fields' = transaction(fields, run)
    /\ fieldCalls' = fieldCalls + 1
    /\ lastCall' = FieldCall(op, f, fields, arguments, run)
    /\ UNCHANGED notFieldVars

CreateField ==
    /\ fieldCalls < MaxFieldCalls
    /\ \E f \in FieldIds :
          /\ fields[f].state = "absent"
          /\ \A g \in 1..(f - 1) : fields[g].state # "absent"
          /\ \E type_name \in FieldTypes, primary \in BOOLEAN,
                name \in NamesToAskFor(fields) :
                \E references \in References(fields, f, type_name) :
                    Called("create_field", f,
                           [NoArguments EXCEPT !.type_name = type_name,
                                               !.name = name, !.flag = primary],
                           create_field(fields, f, type_name, primary, name, references))

UpdateField ==
    /\ fieldCalls < MaxFieldCalls
    /\ \E f \in LiveFields(fields) :
          \E new_type_name \in FieldTypes, name \in NamesToAskFor(fields) \cup {NoName},
             postfix \in Postfixes, callback \in BOOLEAN,
             alter_field_error \in BOOLEAN :
              \E references \in
                      IF new_type_name = fields[f].type
                      THEN {fields[f].dependencies}
                      ELSE References(fields, f, new_type_name) :
                  Called("update_field", f,
                         [NoArguments EXCEPT !.type_name = new_type_name,
                                             !.name = name, !.flag = callback,
                                             !.error = alter_field_error],
                         update_field(fields, f, new_type_name, name, postfix,
                                      references, callback, alter_field_error))

DeleteField ==
    /\ fieldCalls < MaxFieldCalls
    /\ \E f \in LiveFields(fields) :
          \E allow_deleting_primary \in BOOLEAN, apply_and_send_updates \in BOOLEAN :
              Called("delete_field", f,
                     [NoArguments EXCEPT !.flag = allow_deleting_primary],
                     delete_field(fields, f, allow_deleting_primary,
                                  apply_and_send_updates))

RestoreField ==
    /\ fieldCalls < MaxFieldCalls
    /\ \E f \in FieldIds :
          /\ fields[f].state = "trashed"
          /\ \E is_specific \in BOOLEAN, restore_failed \in BOOLEAN,
                related_table_trashed \in {FALSE, fields[f].type = "link_row"} :
                \E references \in References(fields, f, fields[f].type) :
                    Called("restore_field", f,
                           [NoArguments EXCEPT !.flag = is_specific,
                               !.related_table_trashed = related_table_trashed],
                           restore_field(fields, f, is_specific, related_table_trashed,
                                         restore_failed, references))

FieldsNext ==
    \/ CreateField
    \/ UpdateField
    \/ DeleteField
    \/ RestoreField

(***************************************************************************)
(* Part 6.  The view handler: the sorts and filters of the views of the    *)
(* table (views/handler.py, views/registries.py).                          *)
(***************************************************************************)
\* The views of the table: grid views, and after them one form view.
Views == 1..(NumViews + 1)

\* view_type.can_sort and view_type.can_filter
can_sort(view) == view <= NumViews

can_filter(view) == view <= NumViews

SortIds == 1..NumSortRows

FilterIds == 1..NumFilterRows

Orders == {"ASC", "DESC"}

\* No field, or no order, is passed to update_sort.
NoField == 0

NoOrder == "none"

\* ViewSort.objects and ViewFilter.objects of the table.
ViewSorts(t) == UNION {t[f].viewsort_set : f \in FieldIds}

ViewFilters(t) == UNION {t[f].viewfilter_set : f \in FieldIds}

\* The primary key the database gives the next row.
NextId(ids, rows) ==
    LET unused == {i \in ids : \A r \in rows : r.id # i}
    IN  CHOOSE i \in unused : \A j \in unused : i <= j

\* view.viewsort_set.filter(field_id=field.pk).exists()
SortExists(t, view, f) == \E sort \in t[f].viewsort_set : sort.view = view

create_sortNoExistsTest(t, view, f, order) ==
    LET run == Run(t)
    IN  IF ~can_sort(view) \/ ~check_can_order_by(t[f].type) \/ f \notin LiveFields(t)
        THEN Raise(run, "rejected")
        ELSE Step([run EXCEPT !.table[f].viewsort_set =
                       @ \cup {[id |-> NextId(SortIds, ViewSorts(t)),
                                view |-> view, order |-> order]}],
                  "ViewSort.objects.create", f)

\* ViewHandler.create_sort(user, view, field, order)
create_sort(t, view, f, order) ==
    LET run == Run(t)
    IN  IF ~can_sort(view)
        THEN Raise(run, "ViewSortNotSupported")
        ELSE IF ~check_can_order_by(t[f].type)
        THEN Raise(run, "ViewSortFieldNotSupported")
        ELSE IF f \notin LiveFields(t)
        THEN Raise(run, "FieldNotInTable")
        ELSE IF SortExists(t, view, f)
        THEN Raise(run, "ViewSortFieldAlreadyExist")
        ELSE LET view_sort == [id |-> NextId(SortIds, ViewSorts(t)),
                               view |-> view, order |-> order]
                 created == Step([run EXCEPT !.table[f].viewsort_set =
                                                 @ \cup {view_sort}],
                                 "ViewSort.objects.create", f)
             IN  Step(created, "view_sort_created.send", f)

\* The field a sort is on.
FieldOfSort(t, view_sort) == CHOOSE f \in FieldIds : view_sort \in t[f].viewsort_set

\* ViewHandler.update_sort(user, view_sort, field, order)
update_sort(t, view_sort, given_field, given_order) ==
    LET run == Run(t)
        field_id == FieldOfSort(t, view_sort)
        f == IF given_field # NoField THEN given_field ELSE field_id
        order == IF given_order # NoOrder THEN given_order ELSE view_sort.order
    IN  IF f # field_id /\ f \notin LiveFields(t)
        THEN Raise(run, "FieldNotInTable")
        ELSE IF f # field_id /\ ~check_can_order_by(t[f].type)
        THEN Raise(run, "ViewSortFieldNotSupported")
        ELSE IF f # field_id /\ SortExists(t, view_sort.view, f)
        THEN Raise(run, "ViewSortFieldAlreadyExist")
        ELSE LET removed == [run EXCEPT !.table[field_id].viewsort_set =
                                            @ \ {view_sort}]
                 saved_run ==
                     Step([removed EXCEPT !.table[f].viewsort_set =
                               @ \cup {[view_sort EXCEPT !.order = order]}],
                          "save", f)
             IN  Step(saved_run, "view_sort_updated.send", f)

\* ViewHandler.delete_sort(user, view_sort)
delete_sort(t, view_sort) ==
    LET field_id == FieldOfSort(t, view_sort)
        deleted == Step([Run(t) EXCEPT !.table[field_id].viewsort_set =
                             @ \ {view_sort}],
                        "delete", field_id)
    IN  Step(deleted, "view_sort_deleted.send", field_id)

\* ViewHandler.create_filter(user, view, field, type_name, value)
create_filter(t, view, f, type_name) ==
    LET run == Run(t)
    IN  IF ~can_filter(view)
        THEN Raise(run, "ViewFilterNotSupported")
        ELSE IF ~field_is_compatible(type_name, t[f])
        THEN Raise(run, "ViewFilterTypeNotAllowedForField")
        ELSE IF f \notin LiveFields(t)
        THEN Raise(run, "FieldNotInTable")
        ELSE LET view_filter == [id |-> NextId(FilterIds, ViewFilters(t)),
                                 view |-> view, type |-> type_name]
                 created == Step([run EXCEPT !.table[f].viewfilter_set =
                                                 @ \cup {view_filter}],
                                 "ViewFilter.objects.create", f)
             IN  Step(Step(created, "after_filter_update", f),
                      "view_filter_created.send", f)

\* No sort is passed to create_sort.
NoSort == 0

\* What is kept of a call of the view handler: the view and the field it
\* was about, the id of the sort passed to it, and what it raised.
ViewCall(op, view, f, sort_id, run) ==
    [op |-> op, view |-> view, field |-> f, sort |-> sort_id, raised |-> run.raised]

NoViewCall == ViewCall("none", 1, 1, NoSort, Run(<<>>))

ViewsInit ==
    /\ viewCalls = 0
    /\ lastViewCall = NoViewCall

ViewCalled(op, view, f, sort_id, run) ==
    /\ fields' = transaction(fields, run)
    /\ viewCalls' = viewCalls + 1
    /\ lastViewCall' = ViewCall(op, view, f, sort_id, run)
    /\ UNCHANGED <<fieldCalls, lastCall, notFieldViewVars>>

CreateSort ==
    /\ viewCalls < MaxViewCalls
    /\ Cardinality(ViewSorts(fields)) < NumSortRows
    /\ \E view \in Views, f \in FieldIds, order \in Orders :
          ViewCalled("create_sort", view, f, NoSort, create_sort(fields, view, f, order))

UpdateSort ==
    /\ viewCalls < MaxViewCalls
    /\ \E view_sort \in ViewSorts(fields), f \in FieldIds \cup {NoField},
          order \in Orders \cup {NoOrder} :
          ViewCalled("update_sort", view_sort.view,
                     IF f # NoField THEN f ELSE FieldOfSort(fields, view_sort),
                     view_sort.id,
                     update_sort(fields, view_sort, f, order))

DeleteSort ==
    /\ viewCalls < MaxViewCalls
    /\ \E view_sort \in ViewSorts(fields) :
          ViewCalled("delete_sort", view_sort.view, FieldOfSort(fields, view_sort),
                     view_sort.id,
                     delete_sort(fields, view_sort))

ViewsNext ==
    \/ CreateSort
    \/ UpdateSort
    \/ DeleteSort

(***************************************************************************)
(* Part 7.  The cache of the aggregation of one field of one view          *)
(* (views/handler.py): clear_aggregation_cache and                         *)
(* get_view_field_aggregations, called by concurrent processes.  The calls *)
(* of clear_aggregation_cache are numbered as they begin; a value computed *)
(* from the database is known by the number of calls that had begun then.  *)
(***************************************************************************)
AggProcs == 1..NumAggProcs

NoKey == 0

NoProc == 0

\* No value: what a dict gives for a name it does not have.
NoValue == [computed |-> FALSE, computed_after |-> 0]

\* No entry under the value key (read as {"version": 0}), and no entry of
\* need_computation.
NoEntry == [value |-> NoValue, version |-> 0]

NoNeed == [version |-> 0]

\* The locals of a call.  kind: "clear" or "get"; number: the number of a
\* clear; search, with_total: the arguments of get_view_field_aggregations;
\* values, need_computation: what _get_aggregations_to_compute returned last;
\* db_result: what was computed; began_after: the highest number of a clear
\* that had returned when the call began; got_many, acquired, set_many:
\* whether the call has read the cache, taken the lock, written the cache;
\* returned: the value returned for the name.
NoAggCall ==
    [kind |-> "none", number |-> 0, search |-> FALSE, with_total |-> FALSE,
     values |-> NoValue, need_computation |-> NoNeed, db_result |-> NoValue,
     began_after |-> 0, got_many |-> FALSE, acquired |-> FALSE,
     used_lock |-> FALSE, set_many |-> FALSE, returned |-> NoValue]

\* A value computed from the database now.
Computed == [computed |-> TRUE, computed_after |-> clearsBegun]

get_aggregations_to_computeAlwaysCached(version, value, no_cache) ==
    LET cached_value == value
        cached_version == IF version = NoKey THEN 1 ELSE version
    IN  IF cached_value.version = cached_version
        THEN [got_many |-> TRUE, values |-> cached_value.value,
              need_computation |-> NoNeed]
        ELSE [got_many |-> TRUE, values |-> NoValue,
              need_computation |-> [version |-> cached_version]]

\* ViewHandler._get_aggregations_to_compute(view, aggregations, no_cache)
\* given what the cache holds under the version key and the value key.
get_aggregations_to_compute(version, value, no_cache) ==
    LET cached_value == IF no_cache THEN NoEntry ELSE value
        cached_version == IF no_cache \/ version = NoKey THEN 1 ELSE version
    IN  IF cached_value.version = cached_version
        THEN [got_many |-> ~no_cache, values |-> cached_value.value,
              need_computation |-> NoNeed]
        ELSE [got_many |-> ~no_cache, values |-> NoValue,
              need_computation |-> [version |-> cached_version]]

AggInit ==
    /\ cacheVersion = NoKey
    /\ cacheValue = NoEntry
    /\ cacheLock = NoProc
    /\ aggPc = [p \in AggProcs |-> "idle"]
    /\ aggCall = [p \in AggProcs |-> NoAggCall]
    /\ aggCalls = 0
    /\ clearsBegun = 0
    /\ cleared = 0
    /\ lastReturn = NoAggCall

AggStep(p, at, locals) ==
    /\ aggPc' = [aggPc EXCEPT ![p] = at]
    /\ aggCall' = [aggCall EXCEPT ![p] = locals]
    /\ UNCHANGED notAggVars

\* A process is free to make a call: the first of the free processes.
CanCall(p) ==
    /\ aggCalls < MaxAggCalls
    /\ aggPc[p] = "idle"
    /\ \A q \in 1..(p - 1) : aggPc[q] # "idle"

\* The call of process p returns.
AggReturn(p) ==
    /\ aggPc' = [aggPc EXCEPT ![p] = "idle"]
    /\ aggCall' = [aggCall EXCEPT ![p] = NoAggCall]
    /\ UNCHANGED notAggVars

\* A process calls clear_aggregation_cache(view, name).
CallClear(p) ==
    /\ CanCall(p)
    /\ aggCalls' = aggCalls + 1
    /\ clearsBegun' = clearsBegun + 1
    /\ AggStep(p, "incr", [NoAggCall EXCEPT !.kind = "clear",
                                            !.number = clearsBegun + 1])
    /\ UNCHANGED <<cacheVersion, cacheValue, cacheLock, cleared, lastReturn>>

\* cache.incr(cache_key, 1), which raises ValueError when there is no key.
ClearIncr(p) ==
    /\ aggPc[p] = "incr"
    /\ IF cacheVersion # NoKey
       THEN /\ cacheVersion' = cacheVersion + 1
            /\ cleared' = IF aggCall[p].number > cleared THEN aggCall[p].number
                          ELSE cleared
            /\ AggReturn(p)
       ELSE /\ AggStep(p, "set", aggCall[p])
            /\ UNCHANGED <<cacheVersion, cleared>>
    /\ UNCHANGED <<cacheValue, cacheLock, aggCalls, clearsBegun, lastReturn>>

\* except ValueError: cache.set(cache_key, 2)
ClearSet(p) ==
    /\ aggPc[p] = "set"
    /\ cacheVersion' = 2
    /\ cleared' = IF aggCall[p].number > cleared THEN aggCall[p].number ELSE cleared
    /\ AggReturn(p)
    /\ UNCHANGED <<cacheValue, cacheLock, aggCalls, clearsBegun, lastReturn>>

\* A process calls get_view_field_aggregations(view, with_total, search):
\* the first _get_aggregations_to_compute.
CallGet(p) ==
    /\ CanCall(p)
    /\ aggCalls' = aggCalls + 1
    /\ \E search \in BOOLEAN, with_total \in BOOLEAN :
          LET got == get_aggregations_to_compute(cacheVersion, cacheValue, search)
              use_lock == ~search /\ (got.need_computation # NoNeed \/ with_total)
          IN  AggStep(p, IF use_lock THEN "acquire" ELSE "compute",
                      [NoAggCall EXCEPT !.kind = "get", !.search = search,
                                        !.with_total = with_total,
                                        !.began_after = cleared,
                                        !.got_many = got.got_many,
                                        !.values = got.values,
                                        !.need_computation = got.need_computation])
    /\ UNCHANGED <<cacheVersion, cacheValue, cacheLock, clearsBegun, cleared,
                   lastReturn>>

\* cache_lock.acquire()
GetAcquire(p) ==
    /\ aggPc[p] = "acquire"
    /\ cacheLock = NoProc
    /\ cacheLock' = p
    /\ AggStep(p, "again", [aggCall[p] EXCEPT !.acquired = TRUE])
    /\ UNCHANGED <<cacheVersion, cacheValue, aggCalls, clearsBegun, cleared,
                   lastReturn>>

\* the second _get_aggregations_to_compute; used_lock = True
GetAgain(p) ==
    /\ aggPc[p] = "again"
    /\ LET got == get_aggregations_to_compute(cacheVersion, cacheValue,
                                               aggCall[p].search)
       IN  AggStep(p, "compute",
                   [aggCall[p] EXCEPT !.got_many = @ \/ got.got_many,
                                      !.values = got.values,
                                      !.need_computation = got.need_computation,
                                      !.used_lock = TRUE])
    /\ UNCHANGED <<cacheVersion, cacheValue, cacheLock, aggCalls, clearsBegun,
                   cleared, lastReturn>>

\* if need_computation or with_total: db_result = get_field_aggregations(..)
GetCompute(p) ==
    /\ aggPc[p] = "compute"
    /\ LET c == aggCall[p]
       IN  IF c.need_computation # NoNeed
           THEN AggStep(p, "set_many", [c EXCEPT !.db_result = Computed])
           ELSE AggStep(p, IF c.with_total THEN "set_many" ELSE "release", c)
    /\ UNCHANGED <<cacheVersion, cacheValue, cacheLock, aggCalls, clearsBegun,
                   cleared, lastReturn>>

\* if not search: cache.set_many(to_cache); values.update(db_result)
GetSetMany(p) ==
    /\ aggPc[p] = "set_many"
    /\ LET c == aggCall[p]
           writes == ~c.search /\ c.db_result # NoValue
       IN  /\ cacheValue' =
                  IF writes
                  THEN [value |-> c.db_result, version |-> c.need_computation.version]
                  ELSE cacheValue
           /\ AggStep(p, "release",
                      [c EXCEPT !.set_many = ~c.search,
                                !.values = IF c.db_result # NoValue THEN c.db_result
                                           ELSE @])
    /\ UNCHANGED <<cacheVersion, cacheLock, aggCalls, clearsBegun, cleared,
                   lastReturn>>

\* if used_lock: cache_lock.release(), LockNotOwnedError passed over;
\* return values
GetRelease(p) ==
    /\ aggPc[p] = "release"
    /\ cacheLock' = IF aggCall[p].used_lock /\ cacheLock = p THEN NoProc
                    ELSE cacheLock
    /\ lastReturn' = [aggCall[p] EXCEPT !.returned = aggCall[p].values]
    /\ AggReturn(p)
    /\ UNCHANGED <<cacheVersion, cacheValue, aggCalls, clearsBegun, cleared>>

\* The lock is taken with timeout=10: it is given up when the time is over.
LockTimeout ==
    /\ cacheLock # NoProc
    /\ cacheLock' = NoProc
    /\ UNCHANGED <<cacheVersion, cacheValue, aggPc, aggCall, aggCalls,
                   clearsBegun, cleared, lastReturn, notAggVars>>

AggNext ==
    \/ \E p \in AggProcs : CallClear(p)
    \/ \E p \in AggProcs : ClearIncr(p)
    \/ \E p \in AggProcs : ClearSet(p)
    \/ \E p \in AggProcs : CallGet(p)
    \/ \E p \in AggProcs : GetAcquire(p)
    \/ \E p \in AggProcs : GetAgain(p)
    \/ \E p \in AggProcs : GetCompute(p)
    \/ \E p \in AggProcs : GetSetMany(p)
    \/ \E p \in AggProcs : GetRelease(p)
    \/ LockTimeout

(***************************************************************************)
(* Part 8.  The tokens that open a password protected public view          *)
(* (views/handler.py: _get_public_view_jwt_secret,                         *)
(* encode_public_view_token, decode_public_view_token,                     *)
(* is_public_view_token_valid, rotate_view_slug, update_view_slug;         *)
(* api/views/serializers.py: UpdateViewSerializer).                        *)
(*                                                                         *)
(* Strings are sequences of symbols.  A slug is made by                    *)
(* secrets.token_urlsafe, whose alphabet holds the "-" that also separates *)
(* the parts of the secret.  A stored password is empty or the output of   *)
(* make_password, "<algorithm>$<salt>$<digest>", which holds no "-".       *)
(* A token is signed with the secret: it is kept as its payload together   *)
(* with the key that signed it, and it decodes under that key only.        *)
(***************************************************************************)
PublicViews == 1..(NumPublicViews + 1)

\* view_type.can_share: the last view is of a type that cannot be shared.
can_share(view) == view <= NumPublicViews

SlugSymbols == {"a", "-"}

\* The slugs of one and two symbols.
Slugs == UNION {[1..n -> SlugSymbols] : n \in {1, 2}}

\* What a user types as the password of a view; empty takes the password off.
RawPasswords == {<<>>, <<"a">>, <<"-">>}

Salts == {"s", "t"}

SECRET_KEY == <<"k">>

\* The digest of the typed password in the alphabet of base64.
Digest(raw) == [i \in 1..Len(raw) |-> IF raw[i] = "a" THEN "A" ELSE "B"]

make_password(raw, salt) == <<"p", "$", salt, "$">> \o Digest(raw)

\* UpdateViewSerializer._update_public_view_password
update_public_view_password(new_public_view_password, salt) ==
    IF new_public_view_password # <<>>
    THEN make_password(new_public_view_password, salt)
    ELSE <<>>

get_public_view_jwt_secretPasswordOnly(view) ==
    view.public_view_password \o <<"-">> \o SECRET_KEY

\* f"{view.slug}-{view.public_view_password}-{settings.SECRET_KEY}"
get_public_view_jwt_secret(view) ==
    view.slug \o <<"-">> \o view.public_view_password \o <<"-">> \o SECRET_KEY

encode_public_view_token(view) ==
    [payload |-> [slug_id |-> view.slug], key |-> get_public_view_jwt_secret(view)]

\* jwt.decode raises jwt.InvalidTokenError when the signature was not made
\* with the secret of the view.
decode_public_view_token(view, token) ==
    [raised |-> token.key # get_public_view_jwt_secret(view),
     payload |-> token.payload]

is_public_view_token_valid(view, token) ==
    ~decode_public_view_token(view, token).raised

\* The views start with different slugs and without a password.
InitialSlugs == <<<<"a">>, <<"a", "-">>, <<"-">>, <<"-", "a">>>>

TokensInit ==
    /\ publicViews = [view \in PublicViews |->
                         [slug |-> InitialSlugs[view], public_view_password |-> <<>>]]
    /\ tokens = {}
    /\ slugsMade = {}
    /\ tokenCalls = 0

\* A request that was let in to the view is handed a token.
EncodeToken(view) ==
    /\ tokenCalls < MaxTokenCalls
    /\ tokenCalls' = tokenCalls + 1
    /\ tokens' = tokens \cup {[token |-> encode_public_view_token(publicViews[view]),
                               view |-> view,
                               issued |-> publicViews[view]]}
    /\ UNCHANGED <<publicViews, slugsMade, notTokenVars>>

\* update_view_slug: CannotShareViewTypeError before anything is written.
update_view_slug(views, view, slug) ==
    IF ~can_share(view)
    THEN views
    ELSE [views EXCEPT ![view].slug = slug]

\* The slug column is unique, so the slug asked for is held by no other view.
UpdateViewSlug(view) ==
    /\ tokenCalls < MaxTokenCalls
    /\ tokenCalls' = tokenCalls + 1
    /\ \E slug \in Slugs :
        /\ \A other \in PublicViews \ {view} : publicViews[other].slug # slug
        /\ publicViews' = update_view_slug(publicViews, view, slug)
    /\ UNCHANGED <<tokens, slugsMade, notTokenVars>>

\* rotate_view_slug: View.create_new_slug() gives a slug that was never in
\* use, then update_view_slug.
RotateViewSlug(view) ==
    /\ tokenCalls < MaxTokenCalls
    /\ tokenCalls' = tokenCalls + 1
    /\ \E new_slug \in Slugs :
        /\ new_slug \notin slugsMade
        /\ \A other \in PublicViews : publicViews[other].slug # new_slug
        /\ \A t \in tokens : t.issued.slug # new_slug
        /\ slugsMade' = slugsMade \cup {new_slug}
        /\ publicViews' = update_view_slug(publicViews, view, new_slug)
    /\ UNCHANGED <<tokens, notTokenVars>>

\* update_view with a public_view_password that went through the serializer.
UpdateViewPassword(view) ==
    /\ tokenCalls < MaxTokenCalls
    /\ tokenCalls' = tokenCalls + 1
    /\ \E raw \in RawPasswords, salt \in Salts :
        publicViews' = [publicViews EXCEPT ![view].public_view_password =
                            update_public_view_password(raw, salt)]
    /\ UNCHANGED <<tokens, slugsMade, notTokenVars>>

TokensNext ==
    \/ \E view \in PublicViews : EncodeToken(view)
    \/ \E view \in PublicViews : UpdateViewSlug(view)
    \/ \E view \in PublicViews : RotateViewSlug(view)
    \/ \E view \in PublicViews : UpdateViewPassword(view)

(***************************************************************************)
(* Part 9.  Taking the hidden fields and the rows that are not allowed out *)
(* of serialized rows (views/handler.py: restrict_rows_for_view).          *)
(*                                                                         *)
(* A serialized row is a function from its keys to values; a key is a      *)
(* string, kept as a sequence of symbols.                                  *)
(***************************************************************************)
DecimalDigits == <<"0", "1", "2", "3", "4", "5", "6", "7", "8", "9">>

RECURSIVE Decimal(_)
\* str(n) of a natural number
Decimal(n) ==
    IF n < 10
    THEN <<DecimalDigits[n + 1]>>
    ELSE Decimal(n \div 10) \o <<DecimalDigits[(n % 10) + 1]>>

\* f"field_{field_id}"
FieldKey(field_id) == <<"field_">> \o Decimal(field_id)

IdKey == <<"id">>

\* The fields of the table of the rows: the key of the first starts the key
\* of the second.
RowFieldIds == {1, 12}

\* The ids of the rows, also taken as the values of their fields.
RowIds == {1, 2}

SerializedRows ==
    UNION {[{IdKey} \cup {FieldKey(f) : f \in shown} -> RowIds] :
               shown \in SUBSET RowFieldIds}

NoneAllowed == [is_none |-> TRUE, ids |-> {}]

RestrictInputs ==
    [hidden : SUBSET RowFieldIds,
     serialized_rows : UNION {[1..n -> SerializedRows] : n \in 0..MaxRestrictRows},
     allowed_row_ids : {NoneAllowed} \cup [is_none : {FALSE}, ids : SUBSET RowIds]]

\* dict.pop(key, None)
DictPop(row, key) == [k \in DOMAIN row \ {key} |-> row[k]]

RECURSIVE PopHidden(_, _)
\* for hidden_field_option in hidden_field_options: row_copy.pop(.., None)
PopHidden(row, hidden) ==
    IF hidden = {}
    THEN row
    ELSE LET h == CHOOSE x \in hidden : TRUE
         IN  PopHidden(DictPop(row, FieldKey(h)), hidden \ {h})

RECURSIVE RestrictLoop(_, _, _, _, _)
\* The loop over serialized_rows from row i on; copy tells whether the keys
\* are popped from a deepcopy of the row or from the row itself.
RestrictLoop(hidden, rows, allowed_row_ids, i, copy) ==
    IF i > Len(rows)
    THEN [restricted_rows |-> <<>>, serialized_rows |-> rows]
    ELSE IF allowed_row_ids.is_none \/ rows[i][IdKey] \in allowed_row_ids.ids
         THEN LET row_copy == PopHidden(rows[i], hidden)
                  after == IF copy THEN rows ELSE [rows EXCEPT ![i] = row_copy]
                  rest == RestrictLoop(hidden, after, allowed_row_ids, i + 1, copy)
              IN  [rest EXCEPT !.restricted_rows = <<row_copy>> \o @]
         ELSE RestrictLoop(hidden, rows, allowed_row_ids, i + 1, copy)

restrict_rows_for_viewNoCopy(hidden, serialized_rows, allowed_row_ids) ==
    RestrictLoop(hidden, serialized_rows, allowed_row_ids, 1, FALSE)

restrict_rows_for_view(hidden, serialized_rows, allowed_row_ids) ==
    RestrictLoop(hidden, serialized_rows, allowed_row_ids, 1, TRUE)

NoRestricted == [done |-> FALSE, restricted_rows |-> <<>>, serialized_rows |-> <<>>]

RestrictInitWith(inputs) ==
    /\ restrictIn \in inputs
    /\ restrictOut = NoRestricted

RestrictIdle ==
    RestrictInitWith({[hidden |-> {}, serialized_rows |-> <<>>,
                       allowed_row_ids |-> NoneAllowed]})

RestrictRowsForView ==
    /\ ~restrictOut.done
    /\ LET out == restrict_rows_for_view(restrictIn.hidden, restrictIn.serialized_rows,
                                         restrictIn.allowed_row_ids)
       IN  restrictOut' = [done |-> TRUE,
                           restricted_rows |-> out.restricted_rows,
                           serialized_rows |-> out.serialized_rows]
    /\ UNCHANGED <<restrictIn, notRestrictVars>>

(***************************************************************************)
(* Part 10.  Starting an Airtable import job                               *)
(* (airtable/handler.py: create_and_start_airtable_import_job).            *)
(*                                                                         *)
(* The requests run at the same time; the query for the running jobs and   *)
(* the insert of the new job are two statements, with no lock around       *)
(* them.  A job is running until the import task has set its state to      *)
(* finished or failed.                                                     *)
(***************************************************************************)
JobRequests == 1..NumJobRequests

JobUsers == 1..NumJobUsers

NoUser == 0

\* AirtableImportJob.objects.filter(user_id=user.id).is_running()
running_jobs(rows, user) ==
    {j \in 1..Len(rows) : rows[j].user = user /\ rows[j].state \notin {"finished", "failed"}}

JobsInit ==
    /\ jobs = <<>>
    /\ jobPc = [r \in JobRequests |-> "idle"]
    /\ jobUser = [r \in JobRequests |-> NoUser]
    /\ jobRaised = [r \in JobRequests |-> NoException]

\* Lines 671-683: the timezone and the membership of the group are checked,
\* then the running jobs of the user are read.
CheckRunningJobs(r) ==
    /\ jobPc[r] = "idle"
    /\ Len(jobs) < MaxJobs
    /\ \E user \in JobUsers, valid_timezone \in BOOLEAN :
        /\ jobUser' = [jobUser EXCEPT ![r] = user]
        /\ IF ~valid_timezone
           THEN /\ jobRaised' = [jobRaised EXCEPT ![r] = "UnknownTimeZoneError"]
                /\ UNCHANGED jobPc
           ELSE IF running_jobs(jobs, user) # {}
           THEN /\ jobRaised' = [jobRaised EXCEPT ![r] = "AirtableImportJobAlreadyRunning"]
                /\ UNCHANGED jobPc
           ELSE /\ jobRaised' = [jobRaised EXCEPT ![r] = NoException]
                /\ jobPc' = [jobPc EXCEPT ![r] = "create"]
    /\ UNCHANGED <<jobs, notJobVars>>

\* Lines 685-692: the job is created and returned.
CreateJob(r) ==
    /\ jobPc[r] = "create"
    /\ jobs' = Append(jobs, [user |-> jobUser[r], state |-> "pending"])
    /\ jobPc' = [jobPc EXCEPT ![r] = "idle"]
    /\ UNCHANGED <<jobUser, jobRaised, notJobVars>>

\* run_import_from_airtable comes to its end.
FinishJob(j) ==
    /\ j \in 1..Len(jobs)
    /\ jobs[j].state = "pending"
    /\ \E state \in {"finished", "failed"} : jobs' = [jobs EXCEPT ![j].state = state]
    /\ UNCHANGED <<jobPc, jobUser, jobRaised, notJobVars>>

JobsNext ==
    \/ \E r \in JobRequests : CheckRunningJobs(r)
    \/ \E r \in JobRequests : CreateJob(r)
    \/ \E j \in 1..MaxJobs : FinishJob(j)

(***************************************************************************)
(* Part 11.  One call of find_next_unused_field_name on any table          *)
(* (fields/handler.py; the operator itself is in part 5).                  *)
(***************************************************************************)
\* The names of the fields of the table: plain ones and numbered ones.
ExistingNames ==
    {<<"a">>, <<"a", "2">>, <<"a", "3">>,
     <<"a", "b", "c">>, <<"a", "b", "2">>, <<"a", "b", "3">>}

\* The names to try: the last one is longer than the three symbols of the
\* one before it and starts with them.
NamesToTry == {<<"a">>, <<"a", "b", "c">>, <<"a", "b", "c", "d">>}

NamedFields ==
    {AbsentField}
        \cup {[AbsentField EXCEPT !.state = state, !.name = name] :
                  state \in {"live", "trashed"}, name \in ExistingNames}

\* Tables the field handler leaves behind: no two live fields share a name.
NamedTables ==
    {t \in [FieldIds -> NamedFields] :
        \A f, g \in LiveFields(t) : f # g => t[f].name # t[g].name}

NameInputs ==
    [table : NamedTables,
     field_names_to_try : UNION {[1..n -> NamesToTry] : n \in {1, 2}},
     field_ids_to_ignore : {{}, {1}}]

NoNameFound == [done |-> FALSE, field_name |-> NoName]

NameInitWith(inputs) ==
    /\ nameIn \in inputs
    /\ nameOut = NoNameFound

NameIdle ==
    NameInitWith({[table |-> NoFields, field_names_to_try |-> <<<<"a">>>>,
                   field_ids_to_ignore |-> {}]})

FindNextUnusedFieldName ==
    /\ ~nameOut.done
    /\ nameOut' = [done |-> TRUE,
                   field_name |-> find_next_unused_field_name(nameIn.table,
                                      nameIn.field_names_to_try,
                                      nameIn.field_ids_to_ignore)]
    /\ UNCHANGED <<nameIn, notNameVars>>

(***************************************************************************)
(* Part 12.  The rows a public view may see                                *)
(* (views/handler.py: PublicViewRows, CachingPublicViewRowChecker;         *)
(* ws/public/rows/signals.py: the receivers of the row update signals).    *)
(*                                                                         *)
(* A view filters on a set of fields; a row matches the filters of a view  *)
(* when its value of each of these fields is TRUE.  A view is named by its *)
(* id, which also stands for its slug.                                     *)
(***************************************************************************)
PubViews == 1..NumPubViews

\* The fields of the table that views filter on.
PubFields == {1, 2}

PubRows == RowIds

PubTables ==
    [filters : [PubViews -> SUBSET PubFields],
     wants : [PubViews -> BOOLEAN],
     values : [PubRows -> [PubFields -> BOOLEAN]]]

\* updated_field_ids: None or the ids of the fields that the update changes.
NoUpdatedFields == [is_none |-> TRUE, ids |-> {}]

UpdatedFieldIds == {NoUpdatedFields} \cup [is_none : {FALSE}, ids : SUBSET PubFields]

\* handler.apply_filters(view, model.objects)
apply_filters(tbl, view) ==
    {r \in PubRows : \A f \in tbl.filters[view] : tbl.values[r][f]}

\* filter_qs.filter(id=row.id).exists()
check_row_visible(tbl, view, row) == row \in apply_filters(tbl, view)

\* filter_qs.filter(id__in=[row.id for row in rows]).values_list("id", ..)
check_rows_visible(tbl, view, rows) == rows \cap apply_filters(tbl, view)

view_row_checks_can_be_cached(tbl, view, updated_field_ids) ==
    IF updated_field_ids.is_none
    THEN TRUE
    ELSE \A f \in tbl.filters[view] : f \notin updated_field_ids.ids

NothingCached == [v \in PubViews |-> [r \in PubRows |-> "none"]]

Cached(visible) == IF visible THEN "true" ELSE "false"

\* CachingPublicViewRowChecker.__init__.  asked is not in the code: it keeps
\* what the latest query of the checker for a row in a view answered.
CachingPublicViewRowChecker(tbl, only_include_views_which_want_realtime_events, updated_field_ids) ==
    LET included == {v \in PubViews :
                        ~only_include_views_which_want_realtime_events \/ tbl.wants[v]}
    IN  [always_visible_views |-> {v \in included : tbl.filters[v] = {}},
         views_with_filters |-> {v \in included : tbl.filters[v] # {}},
         can_use_cache |-> [v \in PubViews |->
                               view_row_checks_can_be_cached(tbl, v, updated_field_ids)],
         updated_field_ids |-> updated_field_ids,
         view_row_check_cache |-> NothingCached,
         asked |-> NothingCached]

get_public_views_where_row_is_visible(checker, tbl, row) ==
    LET cache == checker.view_row_check_cache
        queried == {v \in checker.views_with_filters :
                       ~checker.can_use_cache[v] \/ cache[v][row] = "none"}
        answer(v) == Cached(check_row_visible(tbl, v, row))
        new_cache == [v \in PubViews |->
                         IF v \in queried /\ checker.can_use_cache[v]
                         THEN [cache[v] EXCEPT ![row] = answer(v)]
                         ELSE cache[v]]
        views == {v \in checker.views_with_filters :
                     IF checker.can_use_cache[v]
                     THEN new_cache[v][row] = "true"
                     ELSE check_row_visible(tbl, v, row)}
    IN  [checker |-> [checker EXCEPT
                         !.view_row_check_cache = new_cache,
                         !.asked = [v \in PubViews |->
                                       IF v \in queried
                                       THEN [checker.asked[v] EXCEPT ![row] = answer(v)]
                                       ELSE checker.asked[v]]],
         views |-> views \cup checker.always_visible_views]

\* PublicViewRows(view, allowed_row_ids)
PublicViewRows(view, allowed_row_ids) == [view |-> view, allowed_row_ids |-> allowed_row_ids]

RowsAllowed(ids) == [is_none |-> FALSE, ids |-> ids]

\* PublicViewRows.ALL_ROWS_ALLOWED = None
ALL_ROWS_ALLOWED == NoneAllowed

get_public_views_where_rows_are_visible(checker, tbl, row_ids) ==
    LET cache == checker.view_row_check_cache
        queried == {v \in checker.views_with_filters :
                       \/ ~checker.can_use_cache[v]
                       \/ \E id \in row_ids : cache[v][id] = "none"}
        visible_ids(v) == IF v \in queried
                          THEN check_rows_visible(tbl, v, row_ids)
                          ELSE row_ids
        new_cache == [v \in PubViews |->
                         IF v \in queried /\ checker.can_use_cache[v]
                         THEN [r \in PubRows |->
                                  IF r \in visible_ids(v) THEN "true" ELSE cache[v][r]]
                         ELSE cache[v]]
    IN  [checker |-> [checker EXCEPT
                         !.view_row_check_cache = new_cache,
                         !.asked = [v \in PubViews |->
                                       IF v \in queried
                                       THEN [r \in PubRows |->
                                                IF r \in row_ids
                                                THEN Cached(r \in visible_ids(v))
                                                ELSE checker.asked[v][r]]
                                       ELSE checker.asked[v]]],
         visible_views_rows |->
             {PublicViewRows(v, RowsAllowed(visible_ids(v))) :
                  v \in {w \in checker.views_with_filters : visible_ids(w) # {}}}
                 \cup {PublicViewRows(v, ALL_ROWS_ALLOWED) :
                           v \in checker.always_visible_views}]

\* An event broadcast to the page of a view, with the ids of its rows.
Event(kind, view, rows) == [kind |-> kind, view |-> view, rows |-> rows]

\* _serialize_row(model, rows, many=True), the ids of the rows only
serialize_rows(rows) ==
    [i \in 1..Cardinality(rows) |-> [k \in {IdKey} |-> InOrder(rows)[i]]]

\* The ids of the rows that restrict_rows_for_view lets through.
RestrictedIds(serialized_rows, allowed_row_ids) ==
    LET restricted == restrict_rows_for_view({}, serialized_rows, allowed_row_ids)
    IN  {restricted.restricted_rows[i][IdKey] :
             i \in 1..Len(restricted.restricted_rows)}

\* _send_row_deleted_event_to_views and _send_row_created_event_to_views
send_row_event_to_views(tbl, kind, row, public_views) ==
    {Event(kind, v, {row}) : v \in {w \in public_views : tbl.wants[w]}}

\* _send_rows_deleted_event_to_views and _send_rows_created_event_to_views
send_rows_event_to_views(tbl, kind, serialized_rows, public_views) ==
    {Event(kind, p.view, RestrictedIds(serialized_rows, p.allowed_row_ids)) :
         p \in {q \in public_views : tbl.wants[q.view]}}

\* public_before_row_update
public_before_row_update(tbl, row, updated_field_ids) ==
    LET row_checker == CachingPublicViewRowChecker(tbl, TRUE, updated_field_ids)
        got == get_public_views_where_row_is_visible(row_checker, tbl, row)
    IN  [old_row_public_views |-> got.views, caching_row_checker |-> got.checker]

public_row_updatedNothingDeleted(tbl, row, old_row_public_views, existing_checker) ==
    LET got == get_public_views_where_row_is_visible(existing_checker, tbl, row)
    IN  [checker |-> got.checker,
         events |->
             send_row_event_to_views(tbl, "row_created", row,
                                     got.views \ old_row_public_views)
                 \cup {Event("row_updated", v, {row}) : v \in old_row_public_views}]

\* public_row_updated, with the row as it is after the update in tbl
public_row_updated(tbl, row, old_row_public_views, existing_checker) ==
    LET got == get_public_views_where_row_is_visible(existing_checker, tbl, row)
        updated_row_public_views == got.views
        public_views_where_row_was_deleted ==
            {v \in old_row_public_views : v \notin updated_row_public_views}
        public_views_where_row_was_updated ==
            {v \in old_row_public_views : v \in updated_row_public_views}
        public_views_where_row_was_created ==
            updated_row_public_views \ old_row_public_views
    IN  [checker |-> got.checker,
         events |->
             send_row_event_to_views(tbl, "row_deleted", row,
                                     public_views_where_row_was_deleted)
                 \cup send_row_event_to_views(tbl, "row_created", row,
                                              public_views_where_row_was_created)
                 \cup {Event("row_updated", v, {row}) :
                           v \in public_views_where_row_was_updated}]

\* public_before_rows_update
public_before_rows_update(tbl, rows, updated_field_ids) ==
    LET row_checker == CachingPublicViewRowChecker(tbl, TRUE, updated_field_ids)
        got == get_public_views_where_rows_are_visible(row_checker, tbl, rows)
    IN  [old_rows_public_views |-> got.visible_views_rows,
         caching_row_checker |-> got.checker]

\* The loop of public_rows_updated over old_row_public_views: what one old
\* PublicViewRows adds to the three lists, given the PublicViewRows of its
\* view after the update (found tells whether there is one).
RowsOfOldView(old, found, updated) ==
    LET none == [deleted |-> {}, created |-> {}, updated |-> {}]
        new_visible_ids == updated.allowed_row_ids
        old_ids == IF old.allowed_row_ids.is_none
                   THEN new_visible_ids.ids ELSE old.allowed_row_ids.ids
        new_ids == IF new_visible_ids.is_none THEN old_ids ELSE new_visible_ids.ids
        deleted_ids == old_ids \ new_ids
        created_ids == new_ids \ old_ids
        updated_ids == (new_ids \ created_ids) \ deleted_ids
        some(ids) == IF ids = {} THEN {} ELSE {PublicViewRows(old.view, RowsAllowed(ids))}
    IN  IF ~found
        THEN [none EXCEPT !.deleted = {PublicViewRows(old.view, ALL_ROWS_ALLOWED)}]
        ELSE IF old.allowed_row_ids.is_none /\ new_visible_ids.is_none
        THEN [none EXCEPT !.updated = {PublicViewRows(old.view, ALL_ROWS_ALLOWED)}]
        ELSE [deleted |-> some(deleted_ids), created |-> some(created_ids),
              updated |-> some(updated_ids)]

\* public_rows_updated, with the rows as they are after the update in tbl
public_rows_updated(tbl, rows, old_rows_public_views, existing_checker) ==
    LET got == get_public_views_where_rows_are_visible(existing_checker, tbl, rows)
        public_view_rows == got.visible_views_rows
        found(view) == \E p \in public_view_rows : p.view = view
        updated_of(view) ==
            IF found(view)
            THEN CHOOSE p \in public_view_rows : p.view = view
            ELSE PublicViewRows(view, ALL_ROWS_ALLOWED)
        lists(old) == RowsOfOldView(old, found(old.view), updated_of(old.view))
        public_views_where_rows_were_deleted ==
            UNION {lists(old).deleted : old \in old_rows_public_views}
        public_views_where_rows_were_updated ==
            UNION {lists(old).updated : old \in old_rows_public_views}
        public_views_where_rows_were_created ==
            UNION {lists(old).created : old \in old_rows_public_views}
                \cup {p \in public_view_rows :
                         \A old \in old_rows_public_views : old.view # p.view}
        serialized_rows == serialize_rows(rows)
    IN  [checker |-> got.checker,
         events |->
             send_rows_event_to_views(tbl, "rows_deleted", serialized_rows,
                                      public_views_where_rows_were_deleted)
                 \cup send_rows_event_to_views(tbl, "rows_created", serialized_rows,
                                               public_views_where_rows_were_created)
                 \cup {Event("rows_updated", p.view,
                             RestrictedIds(serialized_rows, p.allowed_row_ids)) :
                           p \in public_views_where_rows_were_updated}]

NoBefore ==
    [kind |-> "none", rows |-> {}, updated_field_ids |-> {},
     old_row_public_views |-> {}, old_rows_public_views |-> {},
     visible_before |-> [v \in PubViews |-> {}]]

NoPubEvents ==
    [kind |-> "none", rows |-> {}, visible_before |-> [v \in PubViews |-> {}],
     events |-> {}]

NoCheck == [kind |-> "none", rows |-> {}, reported |-> {}]

PublicInitWith(tables) ==
    /\ pubTable \in tables
    /\ pubChecker = CachingPublicViewRowChecker(pubTable, TRUE, NoUpdatedFields)
    /\ pubBefore = NoBefore
    /\ pubEvents = NoPubEvents
    /\ pubLast = NoCheck
    /\ pubCalls = 0

PublicIdle ==
    PublicInitWith({[filters |-> [v \in PubViews |-> {}],
                     wants |-> [v \in PubViews |-> TRUE],
                     values |-> [r \in PubRows |-> [f \in PubFields |-> TRUE]]]})

\* The rows of the table in which each view shows them.
VisibleIn(tbl, rows) == [v \in PubViews |-> rows \cap apply_filters(tbl, v)]

\* What the row handler may make of the values: it changes the fields of
\* updated_field_ids in the rows it updates, and nothing else.
ValuesAfter(values, rows, field_ids) ==
    {after \in [PubRows -> [PubFields -> BOOLEAN]] :
        \A r \in PubRows : \A f \in PubFields :
            (r \notin rows \/ f \notin field_ids) => after[r][f] = values[r][f]}

\* before_row_update is sent: public_before_row_update.
BeforeRowUpdate ==
    /\ pubBefore.kind = "none"
    /\ pubEvents.kind = "none"
    /\ \E row \in PubRows, field_ids \in SUBSET PubFields :
        LET before == public_before_row_update(pubTable, row, RowsAllowed(field_ids))
        IN  /\ pubBefore' = [NoBefore EXCEPT
                                !.kind = "row", !.rows = {row},
                                !.updated_field_ids = field_ids,
                                !.old_row_public_views = before.old_row_public_views,
                                !.visible_before = VisibleIn(pubTable, {row})]
            /\ pubChecker' = before.caching_row_checker
    /\ UNCHANGED <<pubTable, pubEvents, pubLast, pubCalls, notPublicVars>>

\* The row is saved and row_updated is sent: public_row_updated, and the
\* events that go out when the transaction commits.
RowUpdated ==
    /\ pubBefore.kind = "row"
    /\ \E after \in ValuesAfter(pubTable.values, pubBefore.rows,
                                pubBefore.updated_field_ids) :
        LET tbl == [pubTable EXCEPT !.values = after]
            row == CHOOSE r \in pubBefore.rows : TRUE
            sent == public_row_updated(tbl, row, pubBefore.old_row_public_views,
                                       pubChecker)
        IN  /\ pubTable' = tbl
            /\ pubChecker' = sent.checker
            /\ pubEvents' = [kind |-> "row", rows |-> pubBefore.rows,
                             visible_before |-> pubBefore.visible_before,
                             events |-> sent.events]
    /\ pubBefore' = NoBefore
    /\ UNCHANGED <<pubLast, pubCalls, notPublicVars>>

\* before_rows_update is sent: public_before_rows_update.
BeforeRowsUpdate ==
    /\ pubBefore.kind = "none"
    /\ pubEvents.kind = "none"
    /\ \E rows \in SUBSET PubRows \ {{}}, field_ids \in SUBSET PubFields :
        LET before == public_before_rows_update(pubTable, rows, RowsAllowed(field_ids))
        IN  /\ pubBefore' = [NoBefore EXCEPT
                                !.kind = "rows", !.rows = rows,
                                !.updated_field_ids = field_ids,
                                !.old_rows_public_views = before.old_rows_public_views,
                                !.visible_before = VisibleIn(pubTable, rows)]
            /\ pubChecker' = before.caching_row_checker
    /\ UNCHANGED <<pubTable, pubEvents, pubLast, pubCalls, notPublicVars>>

\* The rows are saved and rows_updated is sent: public_rows_updated.
RowsUpdated ==
    /\ pubBefore.kind = "rows"
    /\ \E after \in ValuesAfter(pubTable.values, pubBefore.rows,
                                pubBefore.updated_field_ids) :
        LET tbl == [pubTable EXCEPT !.values = after]
            sent == public_rows_updated(tbl, pubBefore.rows,
                                        pubBefore.old_rows_public_views, pubChecker)
        IN  /\ pubTable' = tbl
            /\ pubChecker' = sent.checker
            /\ pubEvents' = [kind |-> "rows", rows |-> pubBefore.rows,
                             visible_before |-> pubBefore.visible_before,
                             events |-> sent.events]
    /\ pubBefore' = NoBefore
    /\ UNCHANGED <<pubLast, pubCalls, notPublicVars>>

PublicRowsNext ==
    \/ BeforeRowUpdate
    \/ RowUpdated
    \/ BeforeRowsUpdate
    \/ RowsUpdated

\* ViewHandler.get_public_views_row_checker: a new checker.
NewChecker ==
    /\ pubCalls < MaxCheckerCalls
    /\ pubCalls' = pubCalls + 1
    /\ \E only_include \in BOOLEAN, updated_field_ids \in UpdatedFieldIds :
        pubChecker' = CachingPublicViewRowChecker(pubTable, only_include,
                                                  updated_field_ids)
    /\ pubLast' = NoCheck
    /\ UNCHANGED <<pubTable, pubBefore, pubEvents, notPublicVars>>

\* One call of get_public_views_where_row_is_visible on the checker.
CheckRow ==
    /\ pubCalls < MaxCheckerCalls
    /\ pubCalls' = pubCalls + 1
    /\ \E row \in PubRows :
        LET got == get_public_views_where_row_is_visible(pubChecker, pubTable, row)
        IN  /\ pubChecker' = got.checker
            /\ pubLast' = [kind |-> "row", rows |-> {row},
                           reported |-> {<<v, row>> : v \in got.views}]
    /\ UNCHANGED <<pubTable, pubBefore, pubEvents, notPublicVars>>

\* One call of get_public_views_where_rows_are_visible on the checker.
CheckRows ==
    /\ pubCalls < MaxCheckerCalls
    /\ pubCalls' = pubCalls + 1
    /\ \E rows \in SUBSET PubRows \ {{}} :
        LET got == get_public_views_where_rows_are_visible(pubChecker, pubTable, rows)
        IN  /\ pubChecker' = got.checker
            /\ pubLast' =
                   [kind |-> "rows", rows |-> rows,
                    reported |-> UNION {{<<p.view, r>> :
                                            r \in RestrictedIds(serialize_rows(rows),
                                                                p.allowed_row_ids)} :
                                        p \in got.visible_views_rows}]
    /\ UNCHANGED <<pubTable, pubBefore, pubEvents, notPublicVars>>

\* The rows change between two calls, in the fields the checker was told of.
ChangeRows ==
    /\ pubCalls < MaxCheckerCalls
    /\ pubCalls' = pubCalls + 1
    /\ ~pubChecker.updated_field_ids.is_none
    /\ \E rows \in SUBSET PubRows \ {{}} :
        \E after \in ValuesAfter(pubTable.values, rows,
                                 pubChecker.updated_field_ids.ids) :
            /\ after # pubTable.values
            /\ pubTable' = [pubTable EXCEPT !.values = after]
    /\ UNCHANGED <<pubChecker, pubBefore, pubEvents, pubLast, notPublicVars>>

CheckerNext ==
    \/ NewChecker
    \/ CheckRow
    \/ CheckRows
    \/ ChangeRows

(***************************************************************************)
(* Part 13.  A Progress with a child (core/utils.py: Progress.increment,   *)
(* Progress.create_child).  The objects are changed in place, so what a    *)
(* call has written stays when it raises.                                  *)
(***************************************************************************)
\* Progress(total, parent, represents_progress)
Progress(total, has_parent, represents_progress) ==
    [total |-> total, progress |-> 0, has_parent |-> has_parent,
     represents_progress |-> represents_progress, last_parent_progress |-> 0]

\* math.ceil(Decimal(a) / b * c) for naturals a, c and b > 0
CeilOfRatio(a, b, c) == (a * c + b - 1) \div b

\* Progress.increment of a Progress without parent: the percentage for the
\* updated events is computed and raises when the total is 0.
increment_root(root, by) ==
    [progress |-> [root EXCEPT !.progress = @ + by],
     raised |-> IF root.total = 0 THEN "DivisionByZero" ELSE NoException]

\* Progress.increment of the child: the objects after the call and what
\* the call raised.
increment(parent, child, by) ==
    LET progress == child.progress + by
        new_parent_progress ==
            IF progress >= child.total
            THEN child.represents_progress
            ELSE CeilOfRatio(progress, child.total, child.represents_progress)
        diff == new_parent_progress - child.last_parent_progress
        incremented == IF diff > 0
                       THEN increment_root(parent, diff)
                       ELSE [progress |-> parent, raised |-> NoException]
    IN  [parent |-> incremented.progress,
         child |-> [child EXCEPT !.progress = progress,
                                 !.last_parent_progress = new_parent_progress],
         raised |-> IF incremented.raised # NoException THEN incremented.raised
                    ELSE IF child.total = 0 THEN "DivisionByZero"
                    ELSE NoException]

\* Progress.create_child
create_child(parent, represents_progress, total) ==
    LET child_progress == Progress(total, TRUE, represents_progress)
        incremented == IF child_progress.progress >= child_progress.total
                       THEN increment_root(parent, represents_progress)
                       ELSE [progress |-> parent, raised |-> NoException]
    IN  [parent |-> incremented.progress, child |-> child_progress,
         raised |-> incremented.raised]

NoChild == Progress(-1, FALSE, 0)

ProgressInit ==
    /\ progParent = Progress(ParentTotal, FALSE, 0)
    /\ progChild = NoChild
    /\ progRaised = NoException
    /\ progCalls = 0

CreateChild ==
    /\ progChild = NoChild
    /\ \E represents_progress \in 1..MaxRepresents, total \in 0..MaxChildTotal :
        LET made == create_child(progParent, represents_progress, total)
        IN  /\ progParent' = made.parent
            /\ progChild' = made.child
            /\ progRaised' = made.raised
    /\ UNCHANGED <<progCalls, notProgressVars>>

IncrementChild ==
    /\ progChild # NoChild
    /\ progCalls < MaxIncrements
    /\ progCalls' = progCalls + 1
    /\ \E by \in 1..2 :
        LET done == increment(progParent, progChild, by)
        IN  /\ progParent' = done.parent
            /\ progChild' = done.child
            /\ progRaised' = done.raised
    /\ UNCHANGED notProgressVars

ProgressNext ==
    \/ CreateChild
    \/ IncrementChild

(***************************************************************************)
(* Specifications.                                                         *)
(***************************************************************************)

\* No formula field and no dependency: the recalculation has nothing to do.
RecalcIdle ==
    /\ isFormula = [f \in Fields |-> FALSE]
    /\ RecalcInitWith({[f \in Fields |-> {}]})

\* The global recalculation run by the workers, on a dependency DAG.
\* The parts whose state is the same at the start of every specification.
CoreInit ==
    /\ TypingInit /\ CompileInit /\ CachedInit /\ AggInit /\ TokensInit /\ JobsInit
    /\ ProgressInit

\* The parts that only some specifications start in more than one state.
IdleInit == PublicIdle

RestInit == CoreInit /\ RestrictIdle /\ NameIdle /\ IdleInit

Init == RecalcInit /\ RestInit /\ FieldsInit /\ ViewsInit

Next == RecalcNext

Spec == Init /\ [][Next]_vars

\* The same program started on stored dependency edges of any shape.
InitStoredEdges == RecalcInitWith(AnyGraphs) /\ RestInit /\ FieldsInit /\ ViewsInit

SpecStoredEdges == InitStoredEdges /\ [][Next]_vars

\* Typing of function calls.
InitTyping == RecalcIdle /\ RestInit /\ FieldsInit /\ ViewsInit

SpecTyping == InitTyping /\ [][TypingNext]_vars

\* Compilation of typed expressions.
InitCompile == RecalcIdle /\ RestInit /\ FieldsInit /\ ViewsInit

SpecCompile == InitCompile /\ [][CompileNext]_vars

\* Recalculation of the cached properties of a formula field.
InitCached == RecalcIdle /\ RestInit /\ FieldsInit /\ ViewsInit

SpecCached == InitCached /\ [][RecalculateCachedProperties]_vars

\* The field handler working on the fields of one table.
InitFields == RecalcIdle /\ RestInit /\ FieldsInit /\ ViewsInit

SpecFields == InitFields /\ [][FieldsNext]_vars

\* The tables that create_field builds: a primary formula field, a second
\* field and possibly a third, of any type.
TablesWithFields ==
    LET first == create_field(NoFields, 1, "formula", TRUE, <<"a">>, {}).table
        Second(type) == create_field(first, 2, type, FALSE, <<"b">>, {}).table
        Third(t, type) == create_field(t, 3, type, FALSE, <<"c">>, {}).table
    IN  {Second(type) : type \in FieldTypes}
            \cup {Third(Second(type), other) : type \in FieldTypes, other \in FieldTypes}

\* The view handler on the sorts and filters of the views of such a table.
InitViews == RecalcIdle /\ RestInit /\ FieldsInitWith(TablesWithFields) /\ ViewsInit

SpecViews == InitViews /\ [][ViewsNext]_vars

\* The sorts and filters asked for on the first two fields.
SortChoices == {[view |-> 1, field |-> f] : f \in 1..2}

FilterChoices ==
    {[view |-> 1, field |-> f, type |-> type] : f \in 1..2, type \in ViewFilterTypes}

RECURSIVE WithSorts(_, _)
WithSorts(t, choices) ==
    IF choices = {} THEN t
    ELSE LET c == CHOOSE c \in choices : TRUE
         IN  WithSorts(transaction(t, create_sort(t, c.view, c.field, "ASC")),
                       choices \ {c})

RECURSIVE WithFilters(_, _)
WithFilters(t, choices) ==
    IF choices = {} THEN t
    ELSE LET c == CHOOSE c \in choices : TRUE
         IN  WithFilters(transaction(t, create_filter(t, c.view, c.field, c.type)),
                         choices \ {c})

\* The tables that create_field, create_sort and create_filter build: a
\* primary formula field and a second field, with sorts and filters.
TablesWithViews ==
    LET first == create_field(NoFields, 1, "formula", TRUE, <<"a">>, {}).table
        Second(type, references) ==
            create_field(first, 2, type, FALSE, <<"b">>, references).table
    IN  {WithFilters(WithSorts(Second(type, references), sorts), filters) :
            type \in FieldTypes, references \in SUBSET {1},
            sorts \in SUBSET SortChoices,
            filters \in {F \in SUBSET FilterChoices : Cardinality(F) <= NumFilterRows}}

\* One update_field on a table that has sorts and filters.
InitTypeChange ==
    /\ RecalcIdle /\ RestInit /\ ViewsInit
    /\ fields \in TablesWithViews
    /\ fieldCalls = MaxFieldCalls - 1
    /\ lastCall = NoFieldCall

SpecTypeChange == InitTypeChange /\ [][UpdateField]_vars

\* Processes clearing and reading the aggregation cache of a view.
InitAggregation == RecalcIdle /\ RestInit /\ FieldsInit /\ ViewsInit

SpecAggregation == InitAggregation /\ [][AggNext]_vars

\* The public views and their tokens.
InitTokens == RecalcIdle /\ RestInit /\ FieldsInit /\ ViewsInit

SpecTokens == InitTokens /\ [][TokensNext]_vars

\* One call of restrict_rows_for_view on any rows.
InitRestrict ==
    /\ RecalcIdle /\ CoreInit /\ NameIdle /\ IdleInit /\ FieldsInit /\ ViewsInit
    /\ RestrictInitWith(RestrictInputs)

SpecRestrict == InitRestrict /\ [][RestrictRowsForView]_vars

\* Requests that start Airtable import jobs at the same time.
InitJobs == RecalcIdle /\ RestInit /\ FieldsInit /\ ViewsInit

SpecJobs == InitJobs /\ [][JobsNext]_vars

\* One call of find_next_unused_field_name on any table.
InitNextName ==
    /\ RecalcIdle /\ CoreInit /\ RestrictIdle /\ IdleInit /\ FieldsInit /\ ViewsInit
    /\ NameInitWith(NameInputs)

SpecNextName == InitNextName /\ [][FindNextUnusedFieldName]_vars

\* One update of rows of any table with public views and the events it sends.
InitPublicRows ==
    /\ RecalcIdle /\ CoreInit /\ RestrictIdle /\ NameIdle /\ FieldsInit /\ ViewsInit
    /\ PublicInitWith(PubTables)

SpecPublicRows == InitPublicRows /\ [][PublicRowsNext]_vars

\* Calls of one CachingPublicViewRowChecker in any order.
InitChecker ==
    /\ RecalcIdle /\ CoreInit /\ RestrictIdle /\ NameIdle /\ FieldsInit /\ ViewsInit
    /\ PublicInitWith(PubTables)

SpecChecker == InitChecker /\ [][CheckerNext]_vars

\* A child Progress is made and incremented.
InitProgress == RecalcIdle /\ RestInit /\ FieldsInit /\ ViewsInit

SpecProgress == InitProgress /\ [][ProgressNext]_vars

(***************************************************************************)
(* Properties of the global recalculation.                                 *)
(***************************************************************************)

\* C1: when several workers call recalculate_formulas_according_to_version
\* while a formula field is out of date, at most one of them runs the scan
\* over the formula fields; a worker that did not run it saves no field.
C1_AtMostOneWorkerScans ==
    /\ Cardinality({w \in Workers : scanned[w]}) <= 1
    /\ \A w \in Workers : ~scanned[w] => saved[w] = <<>>

\* Two workers found the formulas out of date; one has scanned and committed,
\* the other now holds the lock and its re-check sent it past the scan.
C1_Witness ==
    \E w, v \in Workers :
        /\ w # v
        /\ scanned[v] /\ pc[v] = "idle"
        /\ lock = w /\ pc[w] = "commit" /\ ~scanned[w] /\ saved[w] = <<>>

\* C2: within one pass a formula field is saved only after each of its
\* direct dependencies that is saved in that pass.
C2_DependenciesSavedFirst ==
    \A w \in Workers : \A i, j \in 1..Len(saved[w]) :
        saved[w][j] \in deps[saved[w][i]] => j < i

\* C3: _recalculate_depth_first never recurses without bound: on a finite set
\* of fields the chain of active calls never holds a field twice, so it is
\* never longer than the number of fields.
C3_RecursionBounded ==
    \A w \in Workers : Len(stack[w]) <= NumFields

\* C4: a call of recalculate_formulas_according_to_version that begins after
\* a call has run to completion (with no schema change between) does not
\* enter the scan and saves no formula field.
C4_SecondRunSavesNothing ==
    \A w \in Workers : afterCompleted[w] => (saved[w] = <<>> /\ pc[w] # "scan")

\* A first call scanned and completed and a later call has returned.
C4_Witness ==
    \E w, v \in Workers :
        /\ scanned[v]
        /\ afterCompleted[w] /\ pc[w] = "idle" /\ calls >= 2

\* C5: within one pass each formula field is saved at most once.
C5_SavedAtMostOnce ==
    \A w \in Workers : \A i, j \in 1..Len(saved[w]) :
        i # j => saved[w][i] # saved[w][j]

\* A saved field that two saved fields depend on was reached again through
\* the dependency graph after it had been saved.
C5_Witness ==
    \E w \in Workers : \E f \in revisited[w] : \E g, h \in Range(saved[w]) :
        g # h /\ f \in deps[g] /\ f \in deps[h] /\ f \in Range(saved[w])

\* C6: when typing a formula field raises a formula exception, the field gets
\* the invalid type carrying the exception message, the current version, and
\* keeps its formula text; the pass goes on: when it ends every formula field
\* that was out of date has been saved.
C6_TypingErrorBecomesInvalidType ==
    /\ lastSave.raised =>
          /\ tx[lastSave.f].formula_type = "invalid"
          /\ tx[lastSave.f].error = lastSave.msg
          /\ tx[lastSave.f].version = BASEROW_FORMULA_VERSION
          /\ tx[lastSave.f].formula = lastSave.formula
    /\ \A w \in Workers :
          (pc[w] = "commit" /\ saved[w] # <<>>) =>
              \A f \in Fields :
                  (isFormula[f] /\ db[f].version # BASEROW_FORMULA_VERSION)
                      => f \in Range(saved[w])

\* Typing raised for the first field saved and for the last one, and the
\* pass has reached its end.
C6_Witness ==
    \E w \in Workers :
        /\ pc[w] = "commit"
        /\ Len(saved[w]) >= 2
        /\ tx[saved[w][1]].formula_type = "invalid"
        /\ tx[saved[w][1]].error = ExceptionMessage(saved[w][1])
        /\ lastSave.raised
        /\ lastSave.f = saved[w][Len(saved[w])]
        /\ lastSave.f # saved[w][1]

(***************************************************************************)
(* Properties of typing and of compilation.                                *)
(***************************************************************************)

\* C7: typing a call of an aggregate function none of whose arguments is
\* array typed (many) gives the invalid type with a message that contains
\* 'must be an aggregate formula', whatever the typing rule returns.
C7_AggregateNeedsArrayArgument ==
    (/\ typeCall.fn.num_args > 0
     /\ typeCall.fn.aggregate
     /\ \A i \in 1..Len(typeCall.args) : ~typeCall.args[i].many)
        => (/\ typeResult.expression_type = "invalid"
            /\ typeResult.error \in MustBeAggregateMessages)

\* C8: typing a call of an aggregate function with an array typed argument
\* returns what the typing rule returns with many forced to False; for a
\* function that is not aggregate the rule's result is returned unchanged.
C8_AggregateResultIsScalar ==
    typeCall.fn.num_args > 0 =>
        /\ (typeCall.fn.aggregate /\ \E i \in 1..Len(typeCall.args) : typeCall.args[i].many)
              => typeResult = [typeCall.rule EXCEPT !.many = FALSE]
        /\ ~typeCall.fn.aggregate => typeResult = typeCall.rule

\* An aggregate function of one array typed argument whose rule returned an
\* array typed expression of a valid type: the result is scalar.
C8_Witness ==
    /\ typeCall.fn.num_args = 1
    /\ typeCall.fn.aggregate
    /\ typeCall.args[1].many
    /\ typeCall.rule.many
    /\ typeCall.rule.expression_type = "number"
    /\ typeResult.expression_type = "number"
    /\ ~typeResult.many

\* The lookup references of an expression tree.
LookupsOf(node) == {n \in {node} \cup Range(node.args) : is_lookup(n)}

\* C9: an expression flagged aggregate, of a valid type, compiles in insert
\* mode to the placeholder empty value of its type, the generator does not
\* run and no join is set up; in bulk update and single row update mode the
\* generator runs, and what it returns has a join for every lookup.
C9_AggregateInsertPlaceholder ==
    LET e == compileIn.expression
        m == compileIn.mode
    IN  (m.name # "none" /\ e.aggregate /\ e.expression_type # "invalid") =>
            IF m.name = "insert"
            THEN /\ compileOut.term.op = "placeholder_empty_value"
                 /\ compileOut.term.name = <<e.expression_type>>
                 /\ ~compileOut.generator_ran
                 /\ compileOut.joins = {}
            ELSE /\ compileOut.generator_ran
                 /\ compileOut.term.op # "placeholder_empty_value"
                 /\ ~compileOut.raised =>
                       \A n \in LookupsOf(e.node) :
                           \E j \in compileOut.joins :
                               /\ j.join_path[1] = n.name
                               /\ j.annotation = <<"not_trashed">> \o j.join_path

\* An aggregate function over a lookup, compiled for an insert.
C9_Witness ==
    /\ compileIn.mode.name = "insert"
    /\ compileIn.expression.aggregate
    /\ compileIn.expression.expression_type = "number"
    /\ compileIn.expression.node.kind = "function_call"
    /\ compileIn.expression.node.aggregate_function
    /\ LookupsOf(compileIn.expression.node) # {}
    /\ compileOut.term.op = "placeholder_empty_value"
    /\ compileOut.joins = {}

\* C10: an expression of the invalid type compiles to the null value in each
\* of the three modes, also when it is flagged aggregate and the mode is
\* insert.
C10_InvalidCompilesToNull ==
    (compileIn.mode.name # "none" /\ compileIn.expression.expression_type = "invalid")
        => (/\ compileOut.term.op = "Value"
            /\ compileOut.term.name = <<"None">>
            /\ ~compileOut.generator_ran)

\* An invalid expression flagged aggregate was compiled for an insert.
C10_Witness ==
    /\ compileIn.mode.name = "insert"
    /\ compileIn.expression.expression_type = "invalid"
    /\ compileIn.expression.aggregate
    /\ compileOut.term.op = "Value"
    /\ compileOut.term.name = <<"None">>

\* The field references and literals of the expression last compiled, each
\* with the query expression the generator returned for it.
CompiledLeaves ==
    LET node == compileIn.expression.node
        term == compileOut.term
    IN  IF node.kind = "function_call"
        THEN LET func == IF node.aggregate_function THEN term.args[1] ELSE term
             IN  {<<node.args[i], func.args[i]>> : i \in 1..Len(node.args)}
        ELSE {<<node, term>>}

GeneratorReturned ==
    compileIn.mode.name # "none" /\ compileOut.generator_ran /\ ~compileOut.raised

\* The query expression reads the column (for a single select column: its
\* value, id and color columns, in a subquery of the model).
IsColumnReference(t, db_column) ==
    \/ t.op = "F" /\ t.name = <<db_column>>
    \/ /\ t.op = "Subquery"
       /\ t.args[1].op = "JSONObject"
       /\ \A i \in 1..Len(t.args[1].args) :
              /\ t.args[1].args[i].op = "F"
              /\ t.args[1].args[i].name[1] = db_column

\* The query expression is a literal value read from the row instance.
IsInstanceValue(t, db_column) ==
    /\ t.op = "Cast"
    /\ LET v == t.args[1] IN
       \/ v.op = "Value" /\ v.name = <<"model_instance", db_column>>
       \/ /\ v.op = "JSONObject"
          /\ \A i \in 1..Len(v.args) :
                 /\ v.args[i].op = "Value"
                 /\ SubSeq(v.args[i].name, 1, 2) = <<"model_instance", db_column>>

\* The query expression reads a column through a join that was set up.
IsJoinReference(t, node) ==
    /\ t.op = "F"
    /\ SubSeq(t.name, 1, 2) = <<"not_trashed", node.name>>
    /\ t.name[Len(t.name)] = node.target[Len(node.target)]
    /\ \E j \in compileOut.joins : j.annotation = SubSeq(t.name, 1, Len(t.name) - 1)

\* C11: where the generator runs, a field reference that is not a lookup
\* compiles to a reference to the column when no row instance is given (bulk
\* update) and to the literal value read from the row instance when one is
\* given (single row update, insert); a lookup compiles to a join in every
\* mode.
C11_FieldReferenceByMode ==
    GeneratorReturned =>
        \A p \in CompiledLeaves :
            p[1].kind = "field_reference" =>
                IF is_lookup(p[1])
                THEN IsJoinReference(p[2], p[1])
                ELSE IF compileIn.mode.model_instance
                THEN IsInstanceValue(p[2], p[1].name) /\ ~IsColumnReference(p[2], p[1].name)
                ELSE IsColumnReference(p[2], p[1].name) /\ ~IsInstanceValue(p[2], p[1].name)

\* A call over a lookup and a field of the table, compiled for a single row
\* update: the lookup is a join, the field is the instance's value.
C11_Witness ==
    /\ GeneratorReturned
    /\ compileIn.mode.name = "single_row_update"
    /\ compileIn.expression.node.kind = "function_call"
    /\ ~compileIn.expression.node.aggregate_function
    /\ Len(compileIn.expression.node.args) = 2
    /\ is_lookup(compileIn.expression.node.args[1])
    /\ compileIn.expression.node.args[2].name = "field_1"
    /\ compileOut.term.args[2].op = "Cast"
    /\ compileOut.joins # {}

\* C13: every join set up for a lookup is filtered to related rows that are
\* not trashed and that exist (the relation is not null); the join of a
\* nested lookup, through a second link field, also excludes the rows trashed
\* in the intermediate table; the subquery of an aggregate requires every
\* joined relation to be not null.
C13_LookupJoinsExcludeTrashed ==
    /\ \A j \in compileOut.joins :
          /\ <<j.join_path, "trashed", "False">> \in j.conditions
          /\ <<j.join_path, "isnull", "False">> \in j.conditions
          /\ Len(j.join_path) = 2 =>
                <<SubSeq(j.join_path, 1, 1), "trashed", "False">> \in j.conditions
    /\ GeneratorReturned =>
          /\ \A n \in LookupsOf(compileIn.expression.node) :
                \E j \in compileOut.joins :
                    j.join_path = <<n.name>> \o SubSeq(n.target, 1, Len(n.target) - 1)
          /\ (/\ compileIn.expression.node.kind = "function_call"
              /\ compileIn.expression.node.aggregate_function)
                => /\ compileOut.term.annotate = compileOut.joins
                   /\ compileOut.term.not_null = {j.annotation : j \in compileOut.joins}

\* An aggregate function over a lookup and a nested lookup, compiled for a
\* bulk update: two joins, the nested one through the intermediate table.
C13_Witness ==
    /\ GeneratorReturned
    /\ compileIn.mode.name = "bulk_update"
    /\ compileIn.expression.node.kind = "function_call"
    /\ compileIn.expression.node.aggregate_function
    /\ Cardinality(compileOut.joins) = 2
    /\ \E j \in compileOut.joins : Len(j.join_path) = 2
    /\ Cardinality(compileOut.term.not_null) = 2

\* C14: an integer literal compiles to a value with a decimal output field of
\* 50 digits and 0 decimal places, a decimal literal to one of 50 digits and
\* as many decimal places as the literal has; the literal itself is carried
\* whole, 100000000000000000000 included.
C14_LiteralPrecision ==
    GeneratorReturned =>
        \A p \in CompiledLeaves :
            /\ p[1].kind = "int_literal" =>
                  /\ p[2].op = "Value"
                  /\ p[2].name = <<p[1].name>>
                  /\ p[2].output_field = [max_digits |-> 50, decimal_places |-> 0]
            /\ p[1].kind = "decimal_literal" =>
                  /\ p[2].op = "Value"
                  /\ p[2].name = <<p[1].name>>
                  /\ p[2].output_field.max_digits = 50
                  /\ p[1].name = "1.50" => p[2].output_field.decimal_places = 2
                  /\ p[1].name = "10.000" => p[2].output_field.decimal_places = 3

\* The literal 100000000000000000000 and the literal 10.000 have both been
\* compiled on their own; the latter is the one compiled last.
C14_Witness ==
    /\ GeneratorReturned
    /\ compileIn.expression.node.kind = "decimal_literal"
    /\ compileIn.expression.node.name = "10.000"
    /\ compileOut.term.output_field.decimal_places = 3

(***************************************************************************)
(* Properties of the cached properties of a formula field.                 *)
(***************************************************************************)

\* C12: after a formula field is recalculated its requires_refresh_after_insert
\* flag is true exactly when its typed expression is aggregate or uses a
\* function marked requires_refresh_after_insert; the expression of a formula
\* whose typing raised is an invalid literal, neither aggregate nor using any
\* function.
C12_RefreshAfterInsertFlag ==
    cachedIn # NothingRecalculated =>
        cachedOut.requires_refresh_after_insert =
            IF cachedIn.outcome.raised
            THEN FALSE
            ELSE \/ cachedIn.outcome.aggregate
                 \/ \E fn \in cachedIn.outcome.functions_used :
                        fn.requires_refresh_after_insert

\* A field stored without the flag whose formula is not aggregate and uses
\* row_id and add: the flag is set.
C12_Witness ==
    /\ ~cachedIn.formula_field.requires_refresh_after_insert
    /\ ~cachedIn.outcome.raised
    /\ ~cachedIn.outcome.aggregate
    /\ {fn.type : fn \in cachedIn.outcome.functions_used} = {"row_id", "add"}
    /\ cachedOut.requires_refresh_after_insert

(***************************************************************************)
(* Properties of the field handler.                                        *)
(***************************************************************************)

\* The positions in the latest call at which a step of this kind was taken
\* for field f.
StepsAt(kind, f) ==
    {i \in 1..Len(lastCall.events) : lastCall.events[i] = Ev(kind, f)}

\* C15: after any sequence of create_field, update_field, delete_field (also
\* with allow_deleting_primary) and restore_field, at most one field of the
\* table that is not trashed is primary.
C15_AtMostOnePrimary ==
    Cardinality({f \in LiveFields(fields) : fields[f].primary}) <= 1

\* C16: delete_field on a primary field without allow_deleting_primary raises
\* CannotDeletePrimaryField; no step of the call was taken (no signal, no
\* trashing, no edge broken, no dependant notified): the field is stored as
\* it was, not trashed, and every dependant still has its edge to it.
C16_PrimaryNotDeleted ==
    (/\ lastCall.op = "delete_field"
     /\ lastCall.stored.primary
     /\ ~lastCall.arguments.flag)
        => /\ lastCall.raised = "CannotDeletePrimaryField"
           /\ lastCall.events = <<>>
           /\ fields[lastCall.field] = lastCall.stored
           /\ fields[lastCall.field].state = "live"
           /\ \A d \in lastCall.dependants :
                  lastCall.field \in fields[d].dependencies

\* delete_field was refused for a primary field that two fields depend on.
C16_Witness ==
    /\ lastCall.op = "delete_field"
    /\ lastCall.stored.primary
    /\ ~lastCall.arguments.flag
    /\ Cardinality(lastCall.dependants) = 2
    /\ lastCall.raised = "CannotDeletePrimaryField"

\* C17: update_field changing a primary field to a type that cannot be
\* primary raises IncompatiblePrimaryFieldTypeError before any step is taken:
\* the polymorphic type is not changed, field_type_changed has not touched
\* the view filters and sorts, and the field is stored as it was.
C17_PrimaryKeepsCompatibleType ==
    (/\ lastCall.op = "update_field"
     /\ lastCall.stored.primary
     /\ lastCall.arguments.type_name # lastCall.stored.type
     /\ ~can_be_primary_field(lastCall.arguments.type_name))
        => /\ lastCall.raised = "IncompatiblePrimaryFieldTypeError"
           /\ lastCall.events = <<>>
           /\ fields[lastCall.field] = lastCall.stored

\* A primary formula field was asked to become a link row field under a new
\* name, and was refused.
C17_Witness ==
    /\ lastCall.op = "update_field"
    /\ lastCall.stored.primary
    /\ lastCall.stored.type = "formula"
    /\ lastCall.arguments.type_name = "link_row"
    /\ lastCall.arguments.name \notin {NoName, lastCall.stored.name}
    /\ lastCall.raised = "IncompatiblePrimaryFieldTypeError"
    /\ fields[lastCall.field].type = "formula"

\* C18: after any sequence of create_field, update_field (with or without a
\* postfix), delete_field and restore_field, no two fields of the table that
\* are not trashed have the same name, whether restore_field was given the
\* base Field instance or the specific instance.
C18_NamesUnique ==
    \A f, g \in LiveFields(fields) : f # g => fields[f].name # fields[g].name

\* C19: a delete_field that is not refused raises nothing, whatever depends
\* on the field; it calls field_dependency_deleted exactly once for each
\* field that depended on the deleted field when the call was made, and for
\* no other, each time after the field was trashed and its edges were broken.
C19_DependantsNotifiedAfterTrash ==
    (/\ lastCall.op = "delete_field"
     /\ ~(lastCall.stored.primary /\ ~lastCall.arguments.flag))
        => /\ lastCall.raised = NoException
           /\ \A d \in FieldIds :
                  Cardinality(StepsAt("field_dependency_deleted", d))
                      = IF d \in lastCall.dependants THEN 1 ELSE 0
           /\ \A d \in lastCall.dependants :
                  \A i \in StepsAt("field_dependency_deleted", d) :
                      /\ \E j \in StepsAt("trash", lastCall.field) : j < i
                      /\ \E j \in StepsAt("break_dependencies_delete_dependants",
                                            lastCall.field) : j < i
           /\ fields[lastCall.field].state = "trashed"
           /\ \A d \in FieldIds : lastCall.field \notin fields[d].dependencies

\* A field that two fields depended on was deleted.
C19_Witness ==
    /\ lastCall.op = "delete_field"
    /\ lastCall.raised = NoException
    /\ Cardinality(lastCall.dependants) = 2
    /\ \A d \in lastCall.dependants : StepsAt("field_dependency_deleted", d) # {}
    /\ fields[lastCall.field].state = "trashed"

\* C20: an update_field that raises nothing calls field_dependency_updated
\* for every field that depends on the updated field, after the column was
\* altered and after after_schema_change_callback (when one is given) ran;
\* the collected updates are applied after these calls and before the
\* field_updated signal is sent.
C20_DependantsUpdatedBeforeSignal ==
    (lastCall.op = "update_field" /\ lastCall.raised = NoException)
        => LET f == lastCall.field
               applied == StepsAt("apply_updates_and_get_updated_fields", f)
           IN  /\ Cardinality(applied) = 1
               /\ Cardinality(StepsAt("field_updated.send", f)) = 1
               /\ lastCall.arguments.flag =>
                      StepsAt("after_schema_change_callback", f) # {}
               /\ \A d \in lastCall.dependants :
                      /\ StepsAt("field_dependency_updated", d) # {}
                      /\ \A i \in StepsAt("field_dependency_updated", d) :
                             /\ \E j \in StepsAt("alter_field", f) : j < i
                             /\ \A j \in StepsAt("after_schema_change_callback", f) :
                                    j < i
                             /\ \A j \in applied : i < j
               /\ \A i \in applied :
                      \A j \in StepsAt("field_updated.send", f) : i < j

\* A field that two fields depend on was renamed, with a callback.
C20_Witness ==
    /\ lastCall.op = "update_field"
    /\ lastCall.raised = NoException
    /\ lastCall.arguments.flag
    /\ lastCall.arguments.name \notin {NoName, lastCall.stored.name}
    /\ Cardinality(lastCall.dependants) = 2
    /\ \A d \in lastCall.dependants : StepsAt("field_dependency_updated", d) # {}

(***************************************************************************)
(* Properties of the view handler.                                         *)
(***************************************************************************)

\* The sorts of the view on field f in table t.
SortsOn(t, view, f) == {sort \in t[f].viewsort_set : sort.view = view}

\* C24: whatever create_sort, update_sort and delete_sort are called, a view
\* has afterwards at most one sort on a field; a create_sort for a field
\* the view already sorts on, and an update_sort moving a sort to a field
\* that another sort of its view is on, raise ViewSortFieldAlreadyExist and
\* leave every sort as it was.
C24_OneSortPerField ==
    [][/\ \A view \in Views, f \in FieldIds :
              Cardinality(SortsOn(fields', view, f)) <= 1
       /\ (/\ viewCalls' = viewCalls + 1
           /\ lastViewCall'.op \in {"create_sort", "update_sort"}
           /\ \E sort \in SortsOn(fields, lastViewCall'.view, lastViewCall'.field) :
                  sort.id # lastViewCall'.sort)
              => /\ lastViewCall'.raised = "ViewSortFieldAlreadyExist"
                 /\ fields' = fields]_vars

\* update_sort was refused: its view already had a sort on the field.
C24_Witness ==
    /\ lastViewCall.op = "update_sort"
    /\ lastViewCall.raised = "ViewSortFieldAlreadyExist"
    /\ SortsOn(fields, lastViewCall.view, lastViewCall.field) # {}
    /\ \E f \in FieldIds \ {lastViewCall.field} :
           \E sort \in SortsOn(fields, lastViewCall.view, f) :
               sort.id = lastViewCall.sort

FilterTypesFor(type) ==
    IF type = "link_row" THEN {"empty", "link_row_has"} ELSE {"equal", "empty"}

C22_NoValueFromBeforeClear ==
    (lastReturn.kind = "get" /\ ~lastReturn.search)
        => lastReturn.returned.computed_after >= lastReturn.began_after

\* C23: a get_view_field_aggregations with a search string has not read the
\* cache, has not taken the lock and has not written the cache when it
\* returns, and the value it returns was computed from the database by this
\* call.
C23_SearchBypassesCache ==
    (lastReturn.kind = "get" /\ lastReturn.search)
        => /\ ~lastReturn.got_many
           /\ ~lastReturn.acquired
           /\ ~lastReturn.used_lock
           /\ ~lastReturn.set_many
           /\ lastReturn.db_result.computed
           /\ lastReturn.returned = lastReturn.db_result

\* A search returned while the cache held a value of the current version,
\* which the search did not return.
C23_Witness ==
    /\ lastReturn.kind = "get"
    /\ lastReturn.search
    /\ cacheValue # NoEntry
    /\ cacheValue.version = cacheVersion
    /\ lastReturn.returned # cacheValue.value

(***************************************************************************)
(* C26: a token issued by encode_public_view_token is valid for a view     *)
(* only while that view has the slug and the public_view_password the      *)
(* token was issued under: once the slug was rotated or updated or the     *)
(* password changed the tokens issued before are not valid, and no token   *)
(* is valid for a view with another slug than the one it was issued for.   *)
(***************************************************************************)
C26_TokenBoundToSlugAndPassword ==
    \A t \in tokens : \A view \in PublicViews :
        is_public_view_token_valid(publicViews[view], t.token)
            => /\ publicViews[view].slug = t.issued.slug
               /\ publicViews[view].public_view_password =
                      t.issued.public_view_password

\* A token of a view whose slug has been changed since, refused by both
\* views although the other view has the slug the token was issued under
\* taken apart otherwise, next to a token that is still valid.
C26_Witness ==
    \E old, new \in tokens :
        /\ old.view = new.view
        /\ publicViews[old.view].slug # old.issued.slug
        /\ publicViews[old.view].public_view_password # <<>>
        /\ \A view \in PublicViews :
               ~is_public_view_token_valid(publicViews[view], old.token)
        /\ is_public_view_token_valid(publicViews[new.view], new.token)

(***************************************************************************)
(* C27: restrict_rows_for_view returns, in the order given, copies of      *)
(* exactly the rows whose id is in allowed_row_ids (of all rows when       *)
(* allowed_row_ids is None); a returned row has every key of its row but   *)
(* the field_<id> keys of the hidden fields, with the same values; the     *)
(* rows that were passed in are left as they were.                         *)
(***************************************************************************)
AllowedRow(row) ==
    restrictIn.allowed_row_ids.is_none \/ row[IdKey] \in restrictIn.allowed_row_ids.ids

C27_RestrictedRowsAreCopies ==
    restrictOut.done =>
        LET kept == SelectSeq(restrictIn.serialized_rows, AllowedRow)
            returned == restrictOut.restricted_rows
        IN  /\ Len(returned) = Len(kept)
            /\ \A i \in 1..Len(kept) :
                /\ \A f \in restrictIn.hidden : FieldKey(f) \notin DOMAIN returned[i]
                /\ \A k \in DOMAIN returned[i] :
                       k \in DOMAIN kept[i] /\ returned[i][k] = kept[i][k]
                /\ \A k \in DOMAIN kept[i] :
                       k \in DOMAIN returned[i]
                           \/ \E f \in restrictIn.hidden : k = FieldKey(f)
            /\ restrictOut.serialized_rows = restrictIn.serialized_rows

\* Two rows with both fields, field 1 hidden, only the second row allowed:
\* the call returned that row without field_1 and with its field_12.
C27_Witness ==
    /\ restrictOut.done
    /\ restrictIn.hidden = {1}
    /\ ~restrictIn.allowed_row_ids.is_none
    /\ Len(restrictIn.serialized_rows) = 2
    /\ \A i \in 1..2 : DOMAIN restrictIn.serialized_rows[i] =
                          {IdKey, FieldKey(1), FieldKey(12)}
    /\ Len(restrictOut.restricted_rows) = 1
    /\ restrictOut.restricted_rows[1][IdKey] = restrictIn.serialized_rows[2][IdKey]
    /\ DOMAIN restrictOut.restricted_rows[1] = {IdKey, FieldKey(12)}

(***************************************************************************)
(* C28: a user has at most one running Airtable import job at any time,    *)
(* also when two calls of create_and_start_airtable_import_job for the     *)
(* same user run at the same time.                                         *)
(***************************************************************************)
C28_AtMostOneRunningJob ==
    \A user \in JobUsers : Cardinality(running_jobs(jobs, user)) <= 1

(***************************************************************************)
(* C29: in _recalculate_depth_first a field is in the processed set        *)
(* (already_recalculated) before the recursion into its dependencies       *)
(* starts: every call that is waiting for the call of a dependency is the  *)
(* call of a field of the set.                                             *)
(***************************************************************************)
C29_MarkedBeforeRecursion ==
    \A w \in Workers : \A i \in 1..(Len(stack[w]) - 1) :
        stack[w][i].f \in already_recalculated[w]

(***************************************************************************)
(* C30: find_next_unused_field_name returns a name that no field of the    *)
(* table has, the fields to ignore and the trashed fields aside.  When     *)
(* one of the names to try, cut to the maximum length, is free it returns  *)
(* the first free one in the order given; otherwise it returns the last    *)
(* name to try with the smallest number from 2 upward that gives a free    *)
(* name, and it finds that number after at most as many steps as there     *)
(* are names in the table.                                                 *)
(***************************************************************************)
NamesInUse ==
    {nameIn.table[f].name : f \in LiveFields(nameIn.table) \ nameIn.field_ids_to_ignore}

TriedNames ==
    [i \in 1..Len(nameIn.field_names_to_try) |-> Truncated(nameIn.field_names_to_try[i])]

C30_NextUnusedFieldName ==
    nameOut.done =>
        /\ nameOut.field_name \notin NamesInUse
        /\ IF \E i \in 1..Len(TriedNames) : TriedNames[i] \notin NamesInUse
           THEN \E i \in 1..Len(TriedNames) :
                    /\ nameOut.field_name = TriedNames[i]
                    /\ \A j \in 1..(i - 1) : TriedNames[j] \in NamesInUse
           ELSE \E i \in 2..(Cardinality(NamesInUse) + 2) :
                    /\ nameOut.field_name = NumberedName(TriedNames[Len(TriedNames)], i)
                    /\ \A j \in 2..(i - 1) :
                           NumberedName(TriedNames[Len(TriedNames)], j) \in NamesInUse

\* Both names to try are the name of a field once they are cut, so is the
\* last name with the number 2, and the first name is only free because its
\* field is ignored or trashed elsewhere: the call returned the last name,
\* cut by one more symbol, with the number 3.
C30_Witness ==
    /\ nameOut.done
    /\ Len(nameIn.field_names_to_try) = 2
    /\ nameIn.field_names_to_try[1] # nameIn.field_names_to_try[2]
    /\ Len(nameIn.field_names_to_try[2]) > MaxNameLength
    /\ \A i \in 1..2 : TriedNames[i] \in NamesInUse
    /\ NumberedName(TriedNames[2], 2) \in NamesInUse
    /\ nameOut.field_name = NumberedName(TriedNames[2], 3)
    /\ Len(nameOut.field_name) = MaxNameLength

KindsSentTo(view) == {e.kind : e \in {x \in pubEvents.events : x.view = view}}

C32_OneKindOfEventPerView ==
    pubEvents.kind = "row" =>
        \A view \in PubViews :
            LET before == pubEvents.visible_before[view] # {}
                after == pubEvents.rows \cap apply_filters(pubTable, view) # {}
            IN  KindsSentTo(view) =
                    IF ~pubTable.wants[view] \/ (~before /\ ~after) THEN {}
                    ELSE IF before /\ ~after THEN {"row_deleted"}
                    ELSE IF before /\ after THEN {"row_updated"}
                    ELSE {"row_created"}

\* One update after which one view got row_deleted and the other view
\* row_created, both filtering on a field that the update changed.
C32_Witness ==
    /\ pubEvents.kind = "row"
    /\ \E v, w \in PubViews :
        /\ KindsSentTo(v) = {"row_deleted"}
        /\ KindsSentTo(w) = {"row_created"}
        /\ pubTable.filters[v] # {} /\ pubTable.filters[w] # {}

(***************************************************************************)
(* C34: after a batch update of rows, the rows_deleted event sent to a     *)
(* public view holds only rows that were visible in that view before the   *)
(* update.                                                                 *)
(***************************************************************************)
C34_DeletedRowsWereVisible ==
    pubEvents.kind = "rows" =>
        \A e \in pubEvents.events :
            e.kind = "rows_deleted" => e.rows \subseteq pubEvents.visible_before[e.view]

(***************************************************************************)
(* C35: for a public view with filters, a CachingPublicViewRowChecker      *)
(* reports a row as visible only if the row matched the filters of the     *)
(* view when the checker last queried it, whatever calls of                *)
(* get_public_views_where_row_is_visible and                               *)
(* get_public_views_where_rows_are_visible were made on it before; a row   *)
(* cached as not visible is not reported as visible.                       *)
(***************************************************************************)
C35_ReportedOnlyIfMatched ==
    \A view \in pubChecker.views_with_filters : \A row \in PubRows :
        <<view, row>> \in pubLast.reported
            => /\ pubChecker.asked[view][row] = "true"
               /\ pubChecker.view_row_check_cache[view][row] # "false"

(***************************************************************************)
(* C33: whatever increments a child Progress gets, what it has added to    *)
(* the progress of its parent is never more than its represents_progress,  *)
(* and is its represents_progress once its progress has reached its        *)
(* total, also for a child made with total 0.  (The parent gets nothing    *)
(* from elsewhere, so its progress is what the child added.)               *)
(***************************************************************************)
C33_ChildAddsRepresentsProgress ==
    progChild # NoChild =>
        /\ progParent.progress <= progChild.represents_progress
        /\ progChild.progress >= progChild.total
               => progParent.progress = progChild.represents_progress

====
